---- MODULE Spec2Model ----
(***************************************************************************)
(* A model of discord/state.py: the client-side state engine.              *)
(*                                                                         *)
(*   - the private-channel LRU (ConnectionState._private_channels and its  *)
(*     by-recipient index),                                                *)
(*   - the member-chunk request manager (ChunkRequest, _chunk_requests,    *)
(*     process_chunk_requests, query_members, chunk_guild),                *)
(*   - the single-connection readiness coordinator (parse_ready,           *)
(*     _delay_ready, parse_guild_create).                                  *)
(*                                                                         *)
(* asyncio is modelled as cooperative tasks: a task runs from one await    *)
(* that suspends to the next in one step, and the dispatch loop runs one   *)
(* event handler per step.  Task.cancel() sets a flag that the task's next *)
(* step turns into CancelledError raised at the await it is suspended on.  *)
(***************************************************************************)
EXTENDS Integers, Sequences, FiniteSets, TLC

\* ------------------------------------------------------------------ bounds

\* The first PrefillCount private channels added are the group channels
\* 1..PrefillCount, in that order; every later operation is drawn from the
\* small sets below.
PrefillCount == 126
\* Guild ids are 1..MaxGuilds.
MaxGuilds == 2
\* The events and calls of one behaviour.
MaxHandshakes == 3
MaxGuildCreates == 2
MaxPages == 1
\* The events and calls of one behaviour of SpecChunk.
MaxChunkHandshakes == 1
MaxChunkGuildCreates == 2
MaxChunkPages == 2
MaxQueries == 1
\* The message cache of SpecMsg: its capacity option, the MESSAGE_CREATE
\* events and the other events of one behaviour.
MaxMessagesOption == 2
MaxMessageCreates == 3
MaxMessageEvents == 2
MaxMsgHandshakes == 1
\* The guilds, handshakes, GUILD_CREATE events and pages of one behaviour
\* of SpecShard.
MaxShardGuilds == 3
MaxShardHandshakes == 2
MaxShardGuildCreates == 3
MaxShardPages == 1
\* The queries, pages and other events of one behaviour of SpecMembers.
MaxMemberQueries == 1
MaxMemberPages == 3
MaxMemberEvents == 2
\* The handshakes of one behaviour of SpecClear.
MaxClearHandshakes == 2
\* The vote events of one behaviour of SpecPolls.
MaxPollEvents == 4
\* The events of one behaviour of SpecEvents.
MaxEntityEvents == 5
\* The MESSAGE_CREATE events of one behaviour of SpecDelete.
MaxDeleteMessages == 3
\* The GUILD_CREATE events of one behaviour of SpecDrain.
MaxDrainGuildCreates == 3
\* The handshakes, GUILD_CREATE events and messages of one behaviour of
\* SpecRebind.
MaxRebindHandshakes == 2
MaxRebindGuildCreates == 2
MaxRebindMessages == 2
\* The handshakes and the GUILD_CREATE events of one behaviour of SpecGate.
MaxGateHandshakes == 1
MaxGateGuildCreates == 3
\* The guild-scoped events of one behaviour of SpecStore.
MaxStoreEvents == 3

\* ------------------------------------------------------- program constants

\* state.py:480  `if len(self._private_channels) > 128`
MaxPrivateChannels == 128

\* state.py:174  `options.get("max_messages", 1000)`
DefaultMaxMessages == 1000

\* state.py:186  `options.get("guild_ready_timeout", 2.0)`
DefaultGuildReadyTimeout == 2

\* Python's None, among ids, indices and nonces that are all positive.
None == 0

\* ---------------------------------------------------------------- helpers

Pop(f, k) == [x \in DOMAIN f \ {k} |-> f[x]]

Put(f, k, v) == [x \in DOMAIN f \cup {k} |-> IF x = k THEN v ELSE f[x]]

Range(s) == {s[i] : i \in DOMAIN s}

Without(s, x) == SelectSeq(s, LAMBDA y : y # x)

WithoutAll(s, xs) == SelectSeq(s, LAMBDA y : y \notin xs)

VARIABLES
    _private_channels,          \* OrderedDict id -> channel, as the sequence of its values
    _private_channels_by_user,  \* dict recipient id -> DMChannel
    touched,                    \* history: the stored ids, least recently touched first
    returned                    \* history: what the last _get_private_channel returned
                                \* (<<channel>>, or << >> for None)

lruVars == <<_private_channels, _private_channels_by_user, touched, returned>>

VARIABLES
    _chunk_guilds,              \* options["chunk_guilds_at_startup"]
    _intents,                   \* [members, presences]
    member_cache_flags,         \* [joined]
    shard_ids,                  \* AutoShardedConnectionState.shard_ids once the shards are
                                \* launched; << >> for a ConnectionState
    shards_launched,            \* AutoShardedConnectionState.shards_launched is set
    guild_ready_timeout,        \* options["guild_ready_timeout"], in seconds
    options,                    \* history: the keyword options __init__ was called with
    constructed                 \* history: __init__ has returned

configVars == <<_chunk_guilds, _intents, member_cache_flags, shard_ids, shards_launched,
                guild_ready_timeout, options, constructed>>

VARIABLES
    event_objs,                 \* the ScheduledEvent objects created so far (a reference is
                                \* an index)
    _scheduled_events,          \* Guild._scheduled_events of the Guild objects:
                                \* <<guild, event id>> -> ScheduledEvent
    _polls,                     \* dict message id -> Poll
    _voice_clients,             \* dict guild id -> VoiceClient, as the set of its keys
    view_stores,                \* the ViewStore objects created so far: the persistent
                                \* views each holds
    _view_store                 \* the ViewStore in use

entityVars == <<event_objs, _scheduled_events, _polls, _voice_clients, view_stores, _view_store>>

VARIABLES
    max_messages,               \* options["max_messages"] after lines 174-176, or None
    _messages,                  \* deque(maxlen=max_messages), oldest first
    _users,                     \* dict user id -> User, as the set of its keys
    _emojis,                    \* dict emoji id -> Emoji, as emoji id -> owning guild id
    _stickers,                  \* dict sticker id -> GuildSticker, as sticker id -> guild id
    raised,                     \* history: the handlers that ended with an exception
    store_events                \* history: the entity-store events delivered, by kind

cacheVars == <<max_messages, _messages, _users, _emojis, _stickers, raised, store_events>>

VARIABLES
    guild_objs,                 \* the Guild objects created so far (a reference is an index)
    _guilds                     \* dict guild id -> Guild

guildVars == <<guild_objs, _guilds>>

VARIABLES
    chunk_objs,                 \* the ChunkRequest objects created so far, by nonce
    _chunk_requests,            \* dict (guild id | nonce) -> ChunkRequest
    futures,                    \* the futures created by wait() and get_future()
    ws_sent,                    \* the nonces of the request_chunks frames written, in order
    received                    \* history: per request, the pages delivered for it, in order

chunkVars == <<chunk_objs, _chunk_requests, futures, ws_sent, received>>

VARIABLES
    _ready_task,                \* the coordinator task, or None
    _ready_state,               \* the asyncio.Queue, or None when the attribute is deleted
    queues,                     \* the Queue objects created so far
    tasks,                      \* the _delay_ready tasks created so far
    calls,                      \* the query_members and _chunk_and_dispatch calls so far
    dispatched,                 \* the notifications published, in order
    events                      \* history: the gateway events delivered so far, by type

readyVars == <<_ready_task, _ready_state, queues, tasks, calls, dispatched, events>>

\* ---------------------------------------------------- private-channel LRU

GroupChannel(i) == [id |-> i, type |-> "group", recipient |-> None]

DMChannel(i, u) == [id |-> i, type |-> "dm", recipient |-> u]

\* The channels added after the prefill: a prefilled group channel; one id
\* with two values (recipient known and unknown); a second direct-message
\* channel with the same recipient; one more group channel.
HotChannels ==
    { GroupChannel(1),
      DMChannel(PrefillCount + 1, 1),
      DMChannel(PrefillCount + 1, None),
      DMChannel(PrefillCount + 2, 1),
      GroupChannel(PrefillCount + 3) }

\* The channels removed.
RemovedChannels == { GroupChannel(1), DMChannel(PrefillCount + 1, 1) }

\* The ids looked up: stored, evicted or removed, and never stored.
HotIds == {1, PrefillCount + 1, PrefillCount + 4}

Ids(store) == {store[i].id : i \in DOMAIN store}

IndexOf(store, channel_id) == CHOOSE i \in DOMAIN store : store[i].id = channel_id

\* OrderedDict.move_to_end(key)
MoveToEnd(store, channel_id) ==
    LET i == IndexOf(store, channel_id)
    IN  SubSeq(store, 1, i - 1) \o SubSeq(store, i + 1, Len(store)) \o <<store[i]>>

\* OrderedDict.__setitem__: an existing key keeps its position, a new key
\* goes to the end.
SetItem(store, channel) ==
    IF channel.id \in Ids(store)
    THEN [store EXCEPT ![IndexOf(store, channel.id)] = channel]
    ELSE Append(store, channel)

\* `isinstance(channel, DMChannel) and channel.recipient`
HasRecipient(channel) == channel.type = "dm" /\ channel.recipient # None

\* _get_private_channel: the value returned (None when the key is missing).
GetPrivateChannelValue(store, channel_id) ==
    IF channel_id \in Ids(store) THEN store[IndexOf(store, channel_id)] ELSE None

GetPrivateChannelNoPromote(store, channel_id) == store

\* _get_private_channel: the store afterwards.
GetPrivateChannelStore(store, channel_id) ==
    IF channel_id \in Ids(store) THEN MoveToEnd(store, channel_id) ELSE store

AddPrivateChannelNoEvict(store, index, channel) ==
    [ store |-> SetItem(store, channel),
      index |-> IF HasRecipient(channel)
                THEN Put(index, channel.recipient, channel) ELSE index,
      evicted |-> << >> ]

\* _add_private_channel: the store, the by-recipient index and the evicted
\* entries afterwards.
AddPrivateChannel(store, index, channel) ==
    LET stored == SetItem(store, channel)
        over == Len(stored) > MaxPrivateChannels
        to_remove == Head(stored)
        kept == IF over THEN Tail(stored) ELSE stored
        index1 == IF over /\ HasRecipient(to_remove)
                  THEN Pop(index, to_remove.recipient) ELSE index
        index2 == IF HasRecipient(channel)
                  THEN Put(index1, channel.recipient, channel) ELSE index1
    IN  [ store |-> kept, index |-> index2,
          evicted |-> IF over THEN <<to_remove>> ELSE << >> ]

\* _remove_private_channel
RemovePrivateChannel(store, index, channel) ==
    [ store |-> SelectSeq(store, LAMBDA c : c.id # channel.id),
      index |-> IF channel.type = "dm" /\ channel.recipient # None
                THEN Pop(index, channel.recipient) ELSE index ]

\* The history of touches: an id is touched by an insertion and by a
\* successful lookup; ids that leave the store leave the history.
\* The prefill is still running: the store holds 1..n in order, n < PrefillCount.
Filling ==
    /\ Len(_private_channels) < PrefillCount
    /\ \A i \in DOMAIN _private_channels : _private_channels[i].id = i

DoAdd(channel) ==
    LET r == AddPrivateChannel(_private_channels, _private_channels_by_user, channel)
    IN  /\ UNCHANGED <<configVars, entityVars, cacheVars, guildVars, chunkVars, readyVars>>
        /\ _private_channels' = r.store
        /\ _private_channels_by_user' = r.index
        /\ touched' = WithoutAll(Append(Without(touched, channel.id), channel.id),
                                 Ids(_private_channels) \ Ids(r.store))
        /\ UNCHANGED returned

\* _add_private_channel during the prefill
AddNextChannel ==
    /\ Filling
    /\ DoAdd(GroupChannel(Len(_private_channels) + 1))

\* _add_private_channel(channel)
_add_private_channel(channel) ==
    /\ ~Filling
    /\ DoAdd(channel)

\* _get_private_channel(channel_id)
_get_private_channel(channel_id) ==
    /\ ~Filling
    /\ _private_channels' = GetPrivateChannelStore(_private_channels, channel_id)
    /\ returned' = IF channel_id \in Ids(_private_channels)
                   THEN <<GetPrivateChannelValue(_private_channels, channel_id)>>
                   ELSE << >>
    /\ touched' = IF channel_id \in Ids(_private_channels)
                  THEN Append(Without(touched, channel_id), channel_id)
                  ELSE touched
    /\ UNCHANGED <<_private_channels_by_user, configVars, entityVars, cacheVars, guildVars, chunkVars, readyVars>>

\* _remove_private_channel(channel)
_remove_private_channel(channel) ==
    /\ ~Filling
    /\ LET r == RemovePrivateChannel(_private_channels, _private_channels_by_user, channel)
       IN  /\ _private_channels' = r.store
           /\ _private_channels_by_user' = r.index
    /\ touched' = Without(touched, channel.id)
    /\ UNCHANGED <<returned, configVars, entityVars, cacheVars, guildVars, chunkVars, readyVars>>

\* ---------------------------------------------------------- configuration

Guilds == 1..MaxGuilds

\* ConnectionState.__init__, lines 211-243: the option values construction
\* accepts.  chunk_guilds_at_startup needs the members intent (line 228).
Configs ==
    { [chunk_guilds |-> c, intents |-> [members |-> m, presences |-> p],
       member_cache_flags |-> [joined |-> j]] :
        c \in BOOLEAN, m \in BOOLEAN, p \in BOOLEAN, j \in BOOLEAN }

ValidConfigs == { c \in Configs : ~(~c.intents.members /\ c.chunk_guilds) }

\* ConnectionState.__init__, lines 174-176: the capacity of the message
\* cache, None for no cache.  The option is << >> for None and <<n>> for
\* the integer n, so that 0 and None stay apart; an integer that is not
\* positive becomes the default.
MaxMessages(opts) ==
    LET v == IF "max_messages" \in DOMAIN opts
             THEN opts.max_messages ELSE <<DefaultMaxMessages>>
    IN  IF v = << >> THEN None
        ELSE IF v[1] <= 0 THEN DefaultMaxMessages ELSE v[1]

\* The shard ids of a sharded client, << >> for an unsharded one.
ShardIdsOf(opts) ==
    IF "shard_ids" \in DOMAIN opts THEN opts.shard_ids ELSE << >>

\* ------------------------------------------------------------- user store

\* A user payload; webhook users carry the discriminator "0000".
UserData(i, discriminator) == [id |-> i, discriminator |-> discriminator]

\* store_user: the keys of _users afterwards.
StoreUser(users, data) ==
    IF data.id \in users \/ data.discriminator = "0000"
    THEN users
    ELSE users \cup {data.id}

\* data["user"] of the READY payload: the client's own user.
SelfUser == UserData(1, "0")

\* ------------------------------------------------------------ guild store

\* Guild(data=data, state=self): the attributes the engine reads.
NewGuild(data) ==
    [ id |-> data.id, unavailable |-> data.unavailable, chunked |-> data.chunked,
      large |-> data.large, members |-> << >>, emojis |-> << >>, stickers |-> << >>,
      _member_count |-> None ]

\* guild._from_data(data) on a cached guild
GuildFromData(guild, data) ==
    [guild EXCEPT !.chunked = data.chunked, !.large = data.large]

\* The entry of an unavailable guild in the READY payload's guild list.
UnavailableGuildData(g) ==
    [id |-> g, unavailable |-> "true", chunked |-> FALSE, large |-> FALSE]

GuildNeedsChunkingIgnoresChunked(guild) ==
    /\ _chunk_guilds
    /\ ~(_intents.presences /\ ~guild.large)

\* _guild_needs_chunking
_guild_needs_chunking(guild) ==
    /\ _chunk_guilds
    /\ ~guild.chunked
    /\ ~(_intents.presences /\ ~guild.large)

\* `"guild_available" if unavailable is False else "guild_join"`
AvailabilityEvent(unavailable) ==
    IF unavailable = "false" THEN "guild_available" ELSE "guild_join"

\* self.dispatch(name, guild); `by` is history: the coordinator task that
\* published it, None for a handler or another task.
Dispatch(log, name, guild_id, by) ==
    Append(log, [name |-> name, guild |-> guild_id, by |-> by])

\* _add_guild_from_data for each entry of a list of payloads
RECURSIVE AddGuildsFromData(_, _, _)
AddGuildsFromData(gobjs, gmap, datas) ==
    IF datas = << >> THEN [gobjs |-> gobjs, gmap |-> gmap]
    ELSE AddGuildsFromData(Append(gobjs, NewGuild(Head(datas))),
                           Put(gmap, Head(datas).id, Len(gobjs) + 1),
                           Tail(datas))

\* _get_create_guild: the Guild objects, the guild map and the guild
\* returned.
GetCreateGuild(gobjs, gmap, data) ==
    IF data.unavailable = "false" /\ data.id \in DOMAIN gmap
    THEN [ gobjs |-> [gobjs EXCEPT ![gmap[data.id]] =
                          GuildFromData([@ EXCEPT !.unavailable = "false"], data)],
           gmap |-> gmap, guild |-> gmap[data.id] ]
    ELSE [ gobjs |-> Append(gobjs, NewGuild(data)),
           gmap |-> Put(gmap, data.id, Len(gobjs) + 1),
           guild |-> Len(gobjs) + 1 ]

\* ----------------------------------------------- guild-scoped handlers

\* dict.pop(key, None) for each key of a list
PopAll(f, keys) == [x \in DOMAIN f \ Range(keys) |-> f[x]]

\* store_emoji / store_sticker for each entry of a payload list: the
\* global map afterwards.
RECURSIVE StoreAll(_, _, _)
StoreAll(f, guild_id, ids) ==
    IF ids = << >> THEN f
    ELSE StoreAll(Put(f, Head(ids), guild_id), guild_id, Tail(ids))

RemoveGuildKeepsEmojis(guild) ==
    [ gmap |-> Pop(_guilds, guild.id), emojis |-> _emojis,
      stickers |-> PopAll(_stickers, guild.stickers) ]

\* _remove_guild: the guild map and the global emoji and sticker maps
\* afterwards.
RemoveGuild(guild) ==
    [ gmap |-> Pop(_guilds, guild.id),
      emojis |-> PopAll(_emojis, guild.emojis),
      stickers |-> PopAll(_stickers, guild.stickers) ]

CleanupClears(messages, guild) == << >>

\* parse_guild_delete, lines 1448-1452: the message cache without the
\* messages of the guild (`msg.guild != guild` compares the guilds' ids).
Cleanup(messages, guild) == SelectSeq(messages, LAMBDA msg : msg.guild # guild.id)

\* parse_guild_delete
parse_guild_delete(guild_id, unavailable) ==
    /\ store_events' = [store_events EXCEPT !.other = @ + 1]
    /\ IF guild_id \notin DOMAIN _guilds
       THEN UNCHANGED <<guildVars, _messages, _emojis, _stickers, dispatched>>
       ELSE LET g == _guilds[guild_id]
                guild == guild_objs[g]
            IN  IF unavailable
                THEN /\ guild_objs' = [guild_objs EXCEPT ![g].unavailable = "true"]
                     /\ dispatched' = Dispatch(dispatched, "guild_unavailable", guild_id, None)
                     /\ UNCHANGED <<_guilds, _messages, _emojis, _stickers>>
                ELSE LET r == RemoveGuild(guild)
                     IN  /\ _messages' = Cleanup(_messages, guild)
                         /\ _guilds' = r.gmap
                         /\ _emojis' = r.emojis
                         /\ _stickers' = r.stickers
                         /\ dispatched' = Dispatch(dispatched, "guild_remove", guild_id, None)
                         /\ UNCHANGED guild_objs
    /\ UNCHANGED <<lruVars, configVars, entityVars, chunkVars, max_messages, _users, raised,
                   _ready_task, _ready_state, queues, tasks, calls, events>>

\* parse_guild_emojis_update
parse_guild_emojis_update(guild_id, emojis) ==
    /\ store_events' = [store_events EXCEPT !.other = @ + 1]
    /\ IF guild_id \notin DOMAIN _guilds
       THEN UNCHANGED <<guild_objs, _emojis, dispatched>>
       ELSE LET g == _guilds[guild_id]
            IN  /\ _emojis' = StoreAll(PopAll(_emojis, guild_objs[g].emojis), guild_id, emojis)
                /\ guild_objs' = [guild_objs EXCEPT ![g].emojis = emojis]
                /\ dispatched' = Dispatch(dispatched, "guild_emojis_update", guild_id, None)
    /\ UNCHANGED <<lruVars, configVars, entityVars, chunkVars, _guilds, max_messages, _messages, _users,
                   _stickers, raised, _ready_task, _ready_state, queues, tasks, calls,
                   events>>

\* parse_guild_stickers_update
parse_guild_stickers_update(guild_id, stickers) ==
    /\ store_events' = [store_events EXCEPT !.other = @ + 1]
    /\ IF guild_id \notin DOMAIN _guilds
       THEN UNCHANGED <<guild_objs, _stickers, dispatched>>
       ELSE LET g == _guilds[guild_id]
            IN  /\ _stickers' = StoreAll(PopAll(_stickers, guild_objs[g].stickers),
                                         guild_id, stickers)
                /\ guild_objs' = [guild_objs EXCEPT ![g].stickers = stickers]
                /\ dispatched' = Dispatch(dispatched, "guild_stickers_update", guild_id, None)
    /\ UNCHANGED <<lruVars, configVars, entityVars, chunkVars, _guilds, max_messages, _messages, _users,
                   _emojis, raised, _ready_task, _ready_state, queues, tasks, calls, events>>

\* parse_guild_member_add.  Member(guild, data, state) stores data["user"].
parse_guild_member_add(guild_id, user) ==
    /\ store_events' = [store_events EXCEPT !.other = @ + 1]
    /\ IF guild_id \notin DOMAIN _guilds
       THEN UNCHANGED <<guild_objs, _users, dispatched>>
       ELSE LET g == _guilds[guild_id]
                member == [id |-> user.id, joined_at |-> 1, status |-> "offline"]
            IN  /\ _users' = StoreUser(_users, user)
                /\ guild_objs' =
                      [guild_objs EXCEPT
                         ![g].members = IF member_cache_flags.joined
                                        THEN Put(@, member.id, member) ELSE @,
                         ![g]._member_count = IF @ # None THEN @ + 1 ELSE @]
                /\ dispatched' = Dispatch(dispatched, "member_join", guild_id, None)
    /\ UNCHANGED <<lruVars, configVars, entityVars, chunkVars, _guilds, max_messages, _messages,
                   _emojis, _stickers, raised, _ready_task, _ready_state, queues, tasks,
                   calls, events>>

\* parse_guild_member_remove
parse_guild_member_remove(guild_id, user) ==
    /\ store_events' = [store_events EXCEPT !.other = @ + 1]
    /\ _users' = StoreUser(_users, user)
    /\ IF guild_id \in DOMAIN _guilds
       THEN LET g == _guilds[guild_id]
                known == user.id \in DOMAIN guild_objs[g].members
            IN  /\ guild_objs' =
                      [guild_objs EXCEPT
                         ![g]._member_count = IF @ # None THEN @ - 1 ELSE @,
                         ![g].members = IF known THEN Pop(@, user.id) ELSE @]
                /\ dispatched' =
                      Dispatch(IF known
                               THEN Dispatch(dispatched, "member_remove", guild_id, None)
                               ELSE dispatched,
                               "raw_member_remove", guild_id, None)
       ELSE /\ dispatched' = Dispatch(dispatched, "raw_member_remove", guild_id, None)
            /\ UNCHANGED guild_objs
    /\ UNCHANGED <<lruVars, configVars, entityVars, chunkVars, _guilds, max_messages, _messages,
                   _emojis, _stickers, raised, _ready_task, _ready_state, queues, tasks,
                   calls, events>>

PresenceUpdateAll(members, member_id, status) ==
    [ u \in DOMAIN members |->
        [id |-> members[u].id, joined_at |-> members[u].joined_at, status |-> status] ]

\* member._presence_update(data, user): the members of the guild
\* afterwards.
PresenceUpdateMembers(members, member_id, status) ==
    [ members EXCEPT ![member_id] =
        [id |-> @.id, joined_at |-> @.joined_at, status |-> status] ]

\* parse_presence_update, for a presence that changes no user attribute
\* (member._presence_update returns None).
parse_presence_update(guild_id, user, status) ==
    /\ store_events' = [store_events EXCEPT !.other = @ + 1]
    /\ IF /\ guild_id \in DOMAIN _guilds
          /\ user.id \in DOMAIN guild_objs[_guilds[guild_id]].members
       THEN /\ guild_objs' =
                  [guild_objs EXCEPT ![_guilds[guild_id]].members =
                                        PresenceUpdateMembers(@, user.id, status)]
            /\ dispatched' = Dispatch(dispatched, "presence_update", guild_id, None)
       ELSE UNCHANGED <<guild_objs, dispatched>>
    /\ UNCHANGED <<lruVars, configVars, entityVars, _guilds, chunkVars, max_messages, _messages, _users,
                   _emojis, _stickers, raised, _ready_task, _ready_state, queues, tasks,
                   calls, events>>

\* parse_channel_update.  For a group channel the private-channel store is
\* looked up and `channel._update_group(data)` is called on the result: on
\* None that is an AttributeError.  The channels of a guild are not part of
\* the model: a guild channel id is never found (lines 986-990).
parse_channel_update(group, channel_id) ==
    /\ store_events' = [store_events EXCEPT !.other = @ + 1]
    /\ IF group
       THEN /\ _private_channels' = GetPrivateChannelStore(_private_channels, channel_id)
            /\ IF channel_id \in Ids(_private_channels)
               THEN /\ returned' = <<GetPrivateChannelValue(_private_channels, channel_id)>>
                    /\ touched' = Append(Without(touched, channel_id), channel_id)
                    /\ dispatched' = Dispatch(dispatched, "private_channel_update", None, None)
                    /\ UNCHANGED raised
               ELSE /\ returned' = << >>
                    /\ raised' = raised \cup {"parse_channel_update"}
                    /\ UNCHANGED <<touched, dispatched>>
       ELSE UNCHANGED <<_private_channels, returned, touched, dispatched, raised>>
    /\ UNCHANGED <<_private_channels_by_user, configVars, entityVars, guildVars, chunkVars, max_messages,
                   _messages, _users, _emojis, _stickers, _ready_task, _ready_state, queues,
                   tasks, calls, events>>

\* parse_guild_update: guild._from_data(data) on the cached Guild.
parse_guild_update(data) ==
    /\ store_events' = [store_events EXCEPT !.other = @ + 1]
    /\ IF data.id \in DOMAIN _guilds
       THEN /\ guild_objs' = [guild_objs EXCEPT ![_guilds[data.id]] = GuildFromData(@, data)]
            /\ dispatched' = Dispatch(dispatched, "guild_update", data.id, None)
       ELSE UNCHANGED <<guild_objs, dispatched>>
    /\ UNCHANGED <<lruVars, configVars, entityVars, chunkVars, _guilds, max_messages, _messages,
                   _users, _emojis, _stickers, raised, _ready_task, _ready_state, queues,
                   tasks, calls, events>>

\* ------------------------------------------------------- scheduled events

\* ScheduledEvent(state, guild, creator, data): subscriber_count is
\* data["user_count"].
NewScheduledEvent(guild, data) ==
    [ id |-> data.id, guild |-> guild, name |-> data.name,
      subscriber_count |-> data.user_count ]

\* guild.get_scheduled_event(event_id): the object, None when there is none.
GetScheduledEvent(guild, event_id) ==
    IF <<guild, event_id>> \in DOMAIN _scheduled_events
    THEN _scheduled_events[<<guild, event_id>>] ELSE None

\* parse_guild_scheduled_event_create and parse_guild_scheduled_event_update:
\* both build a ScheduledEvent from the payload and hand it to
\* guild._add_scheduled_event.
ScheduledEventFromData(name, guild_id, data) ==
    /\ store_events' = [store_events EXCEPT !.other = @ + 1]
    /\ IF guild_id \in DOMAIN _guilds
       THEN /\ event_objs' = Append(event_objs, NewScheduledEvent(_guilds[guild_id], data))
            /\ _scheduled_events' =
                   Put(_scheduled_events, <<_guilds[guild_id], data.id>>, Len(event_objs) + 1)
            /\ dispatched' = Dispatch(dispatched, name, guild_id, None)
       ELSE UNCHANGED <<event_objs, _scheduled_events, dispatched>>
    /\ UNCHANGED <<lruVars, configVars, _polls, _voice_clients, view_stores, _view_store,
                   chunkVars, guildVars, max_messages, _messages, _users, _emojis, _stickers,
                   raised, _ready_task, _ready_state, queues, tasks, calls, events>>

parse_guild_scheduled_event_create(guild_id, data) ==
    ScheduledEventFromData("scheduled_event_create", guild_id, data)

parse_guild_scheduled_event_update(guild_id, data) ==
    ScheduledEventFromData("scheduled_event_update", guild_id, data)

\* parse_guild_scheduled_event_user_add and ..._user_remove: line 1658 and
\* line 1682 are the same statement, `event.subscriber_count += 1`.
ScheduledEventUser(kind, guild_id, user_id, event_id) ==
    /\ store_events' = [store_events EXCEPT !.other = @ + 1]
    /\ IF guild_id \in DOMAIN _guilds
       THEN LET guild == _guilds[guild_id]
                event == GetScheduledEvent(guild, event_id)
                raw == Dispatch(dispatched, "raw_scheduled_event_" \o kind, guild_id, None)
            IN  IF user_id \in DOMAIN guild_objs[guild].members /\ event # None
                THEN /\ event_objs' = [event_objs EXCEPT ![event].subscriber_count = @ + 1]
                     /\ dispatched' = Dispatch(raw, "scheduled_event_" \o kind, guild_id, None)
                ELSE /\ dispatched' = raw
                     /\ UNCHANGED event_objs
       ELSE UNCHANGED <<event_objs, dispatched>>
    /\ UNCHANGED <<lruVars, configVars, _scheduled_events, _polls, _voice_clients,
                   view_stores, _view_store, chunkVars, guildVars, max_messages, _messages,
                   _users, _emojis, _stickers, raised, _ready_task, _ready_state, queues,
                   tasks, calls, events>>

parse_guild_scheduled_event_user_add(guild_id, user_id, event_id) ==
    ScheduledEventUser("user_add", guild_id, user_id, event_id)

parse_guild_scheduled_event_user_remove(guild_id, user_id, event_id) ==
    ScheduledEventUser("user_remove", guild_id, user_id, event_id)

\* ------------------------------------------------ voice clients and views

\* _add_voice_client(guild_id, voice)
_add_voice_client(guild_id) ==
    /\ _voice_clients' = _voice_clients \cup {guild_id}
    /\ UNCHANGED <<lruVars, configVars, event_objs, _scheduled_events, _polls, view_stores,
                   _view_store, cacheVars, guildVars, chunkVars, readyVars>>

\* store_view(view): the view is added to the ViewStore in use.
store_view(view) ==
    /\ view_stores' = [view_stores EXCEPT ![_view_store] = @ \cup {view}]
    /\ UNCHANGED <<lruVars, configVars, event_objs, _scheduled_events, _polls, _voice_clients,
                   _view_store, cacheVars, guildVars, chunkVars, readyVars>>

ClearViewStoreAlways(stores, views) == Append(stores, {})

\* clear(views), lines 280-281: a new ViewStore only when views is set.
ClearViewStore(stores, views) == IF views THEN Append(stores, {}) ELSE stores

\* ------------------------------------------------------------------ polls

\* store_poll(poll, message_id)
store_poll(poll, message_id) ==
    /\ _polls' = Put(_polls, message_id, poll)
    /\ UNCHANGED <<lruVars, configVars, event_objs, _scheduled_events, _voice_clients,
                   view_stores, _view_store, cacheVars, guildVars, chunkVars, readyVars>>

\* parse_message_poll_vote_add, lines 861-869, and
\* parse_message_poll_vote_remove, lines 888-892: the poll afterwards.
\* `results` is << >> for a poll without results, <<counts>> otherwise.
PollVote(poll, answer_id, added) ==
    IF poll.results # << >> /\ answer_id \in poll.answers
    THEN LET counts == poll.results[1]
         IN  IF answer_id \in DOMAIN counts
             THEN [poll EXCEPT !.results =
                      <<[counts EXCEPT ![answer_id] = IF added THEN @ + 1 ELSE @ - 1]>>]
             ELSE IF added
                  THEN [poll EXCEPT !.results = <<Put(counts, answer_id, 1)>>]
                  ELSE poll
    ELSE poll

\* parse_message_poll_vote_add and parse_message_poll_vote_remove for a
\* vote outside a guild: the user is looked up with get_user.
parse_message_poll_vote(added, message_id, user_id, answer_id) ==
    LET kind == IF added THEN "add" ELSE "remove"
        raw == Dispatch(dispatched, "raw_poll_vote_" \o kind, None, None)
        known == message_id \in DOMAIN _polls
    IN  /\ store_events' = [store_events EXCEPT !.other = @ + 1]
        /\ _polls' = IF known
                     THEN [_polls EXCEPT ![message_id] = PollVote(@, answer_id, added)]
                     ELSE _polls
        /\ dispatched' = IF /\ known
                            /\ user_id \in _users
                            /\ answer_id \in _polls[message_id].answers
                         THEN Dispatch(raw, "poll_vote_" \o kind, None, None)
                         ELSE raw
        /\ UNCHANGED <<lruVars, configVars, event_objs, _scheduled_events, _voice_clients,
                       view_stores, _view_store, chunkVars, guildVars, max_messages,
                       _messages, _users, _emojis, _stickers, raised, _ready_task,
                       _ready_state, queues, tasks, calls, events>>

\* ---------------------------------------------------------- message cache

\* Message(channel, data, state): its id and, for a message of a cached
\* guild, the id of message.guild and the Guild object it references (None
\* otherwise: _get_guild_channel finds no guild).
NewMessage(data) ==
    [ id |-> data.id,
      guild |-> IF data.guild_id \in DOMAIN _guilds THEN data.guild_id ELSE None,
      ref |-> IF data.guild_id \in DOMAIN _guilds THEN _guilds[data.guild_id] ELSE None ]

UpdateMessageReferencesNone(messages, gmap) == messages

\* AutoShardedConnectionState._update_message_references: a message that
\* references a Guild object other than the one the guild map now holds
\* for its id is rebound to that one.
UpdateMessageReferences(messages, gmap) ==
    [ k \in DOMAIN messages |->
        IF messages[k].ref # None /\ messages[k].guild \in DOMAIN gmap
        THEN [messages[k] EXCEPT !.ref = gmap[messages[k].guild]]
        ELSE messages[k] ]

DequeAppendUnbounded(messages, message, maxlen) == Append(messages, message)

DequeAppendKeepsOldest(messages, message, maxlen) ==
    IF Len(messages) >= maxlen THEN messages ELSE Append(messages, message)

\* deque(maxlen=n).append(x): a full deque drops its leftmost item.
DequeAppend(messages, message, maxlen) ==
    IF Len(messages) >= maxlen
    THEN Append(Tail(messages), message)
    ELSE Append(messages, message)

\* deque.remove(x): the first occurrence is removed.
DequeRemove(messages, message) ==
    LET first == CHOOSE i \in DOMAIN messages :
                    /\ messages[i] = message
                    /\ \A j \in 1..(i - 1) : messages[j] # message
    IN  SubSeq(messages, 1, first - 1) \o SubSeq(messages, first + 1, Len(messages))

DequeRemoveFirstOnly(messages, found) ==
    IF found = << >> THEN messages ELSE DequeRemove(messages, Head(found))

\* parse_message_delete_bulk, lines 738-740: remove(msg) for each message found
RECURSIVE DequeRemoveAll(_, _)
DequeRemoveAll(messages, found) ==
    IF found = << >> THEN messages
    ELSE DequeRemoveAll(DequeRemove(messages, Head(found)), Tail(found))

\* _get_message: the newest cached message with the id, as <<message>>, or
\* << >> for None (also when there is no cache or it is empty).
GetMessage(messages, msg_id) ==
    LET hits == SelectSeq(messages, LAMBDA m : m.id = msg_id)
    IN  IF hits = << >> THEN << >> ELSE <<hits[Len(hits)]>>

\* self.dispatch(name, ...) of a message notification.  `args` are the
\* messages handed over; `cache` is history: the message cache at the
\* moment of the call.
DispatchMessages(log, name, args, cache) ==
    Append(log, [name |-> name, guild |-> None, by |-> None, args |-> args,
                 cache |-> cache])

\* parse_message_create, lines 701-707.  (Lines 709-715 set
\* channel.last_message_id on a channel object of the guild.)
parse_message_create(data) ==
    LET message == NewMessage(data)
    IN  /\ dispatched' = DispatchMessages(dispatched, "message", <<message>>, _messages)
        /\ _messages' = IF max_messages # None
                        THEN DequeAppend(_messages, message, max_messages)
                        ELSE _messages
        /\ store_events' = [store_events EXCEPT !.message_create = @ + 1]
        /\ UNCHANGED <<lruVars, configVars, entityVars, guildVars, chunkVars, max_messages, _users,
                       _emojis, _stickers, raised, _ready_task, _ready_state, queues,
                       tasks, calls, events>>

\* parse_message_delete, lines 717-724
parse_message_delete(msg_id) ==
    LET found == GetMessage(_messages, msg_id)
        log == DispatchMessages(dispatched, "raw_message_delete", found, _messages)
    IN  /\ IF max_messages # None /\ found # << >>
           THEN /\ dispatched' = DispatchMessages(log, "message_delete", found, _messages)
                /\ _messages' = DequeRemove(_messages, found[1])
           ELSE /\ dispatched' = log
                /\ UNCHANGED _messages
        /\ store_events' = [store_events EXCEPT !.other = @ + 1]
        /\ UNCHANGED <<lruVars, configVars, entityVars, guildVars, chunkVars, max_messages, _users,
                       _emojis, _stickers, raised, _ready_task, _ready_state, queues,
                       tasks, calls, events>>

\* parse_message_delete_bulk, lines 726-740
parse_message_delete_bulk(message_ids) ==
    LET found_messages == SelectSeq(_messages, LAMBDA m : m.id \in message_ids)
        log == DispatchMessages(dispatched, "raw_bulk_message_delete", found_messages,
                                _messages)
    IN  /\ IF found_messages # << >>
           THEN /\ dispatched' = DispatchMessages(log, "bulk_message_delete",
                                                  found_messages, _messages)
                /\ _messages' = DequeRemoveAll(_messages, found_messages)
           ELSE /\ dispatched' = log
                /\ UNCHANGED _messages
        /\ store_events' = [store_events EXCEPT !.other = @ + 1]
        /\ UNCHANGED <<lruVars, configVars, entityVars, guildVars, chunkVars, max_messages, _users,
                       _emojis, _stickers, raised, _ready_task, _ready_state, queues,
                       tasks, calls, events>>

\* ------------------------------------------------- chunk request manager

\* A Member built from a chunk page or a gateway event.
Member(i, joined_at) == [id |-> i, joined_at |-> joined_at]

\* The keys of _chunk_requests: guild.id (an int) in chunk_guild,
\* request.nonce (a str) in query_members.
GuildKey(g) == <<"guild", g>>

NonceKey(n) == <<"nonce", n>>

\* A nonce no request carries.
UnknownNonce == 0 - 1

\* ChunkRequest.__init__.  nonce = os.urandom(16).hex(): a value that no
\* earlier request carries, here the request's index among the objects.
\* `unsent` is history: the creating call was cancelled before its
\* request_chunks frame was written.
NewChunkRequest(objs, guild_id, cache) ==
    [ guild_id |-> guild_id, nonce |-> Len(objs) + 1, cache |-> cache,
      buffer |-> << >>, waiters |-> << >>, unsent |-> FALSE ]

\* loop.create_future(); `via` is history: the method that created it.
NewFuture(via) == [state |-> "pending", result |-> << >>, via |-> via]

RECURSIVE CacheMembersOverwrites(_, _)
CacheMembersOverwrites(members, page) ==
    IF page = << >> THEN members
    ELSE CacheMembersOverwrites(Put(members, Head(page).id, Head(page)), Tail(page))

\* add_members, lines 122-125: the guild's member map after the page.
RECURSIVE CacheMembers(_, _)
CacheMembers(members, page) ==
    IF page = << >> THEN members
    ELSE LET member == Head(page)
         IN  CacheMembers(
                 IF \/ member.id \notin DOMAIN members
                    \/ members[member.id].joined_at = None
                 THEN Put(members, member.id, member)
                 ELSE members,
                 Tail(page))

\* add_members, line 116: the request after the page.
AddMembers(request, page) == [request EXCEPT !.buffer = @ \o page]

\* add_members, lines 117-125: the Guild objects after the page.
AddMembersToGuild(request, gobjs, gmap, page) ==
    IF request.cache /\ request.guild_id \in DOMAIN gmap
    THEN [gobjs EXCEPT ![gmap[request.guild_id]].members = CacheMembers(@, page)]
    ELSE gobjs

\* Future.done(): a result was set or the future was cancelled.
FutureDone(future) == future.state # "pending"

DoneResolvesNothing(request, futs) == futs

DoneStopsAtCancelled(request, futs) ==
    [ f \in DOMAIN futs |->
        IF /\ f \in Range(request.waiters)
           /\ \A k \in DOMAIN request.waiters :
                 futs[request.waiters[k]].state # "cancelled"
        THEN [futs[f] EXCEPT !.state = "done", !.result = request.buffer]
        ELSE futs[f] ]

\* ChunkRequest.done: the futures afterwards.
Done(request, futs) ==
    [ f \in DOMAIN futs |->
        IF f \in Range(request.waiters) /\ ~FutureDone(futs[f])
        THEN [futs[f] EXCEPT !.state = "done", !.result = request.buffer]
        ELSE futs[f] ]

MatchesGuildOnly(request, guild_id, nonce) == request.guild_id = guild_id

\* process_chunk_requests, line 299
Matches(request, guild_id, nonce) ==
    request.guild_id = guild_id /\ request.nonce = nonce

RECURSIVE AddMembersToGuilds(_, _, _, _)
AddMembersToGuilds(ns, objs, gobjs, page) ==
    IF ns = {} THEN gobjs
    ELSE LET n == CHOOSE x \in ns : TRUE
         IN  AddMembersToGuilds(ns \ {n}, objs,
                                AddMembersToGuild(objs[n], gobjs, _guilds, page), page)

RECURSIVE DoneAll(_, _, _)
DoneAll(ns, objs, futs) ==
    IF ns = {} THEN futs
    ELSE LET n == CHOOSE x \in ns : TRUE
         IN  DoneAll(ns \ {n}, objs, Done(objs[n], futs))

RemovedKeysNone(matched, complete) == {}

\* process_chunk_requests, lines 301-306: the keys deleted.
RemovedKeys(matched, complete) == IF complete THEN matched ELSE {}

\* process_chunk_requests: the request objects, the registry, the futures
\* and the Guild objects afterwards.
ProcessChunkRequests(guild_id, nonce, members, complete) ==
    LET matched == { k \in DOMAIN _chunk_requests :
                        Matches(chunk_objs[_chunk_requests[k]], guild_id, nonce) }
        hit == { _chunk_requests[k] : k \in matched }
        objs == [ n \in DOMAIN chunk_objs |->
                    IF n \in hit THEN AddMembers(chunk_objs[n], members)
                    ELSE chunk_objs[n] ]
        removed == RemovedKeys(matched, complete)
    IN  [ objs |-> objs,
          registry |-> [ k \in DOMAIN _chunk_requests \ removed |-> _chunk_requests[k] ],
          futs |-> IF complete THEN DoneAll(hit, objs, futures) ELSE futures,
          gobjs |-> AddMembersToGuilds(hit, chunk_objs, guild_objs, members) ]

\* The nonces of the pages delivered: none, one no request carries, and the
\* nonces the gateway has been sent (it echoes what it received).
PageNonces == {None, UnknownNonce} \cup Range(ws_sent)

\* parse_guild_members_chunk.  complete is
\* `data.get("chunk_index", 0) + 1 == data.get("chunk_count")`.
parse_guild_members_chunk(guild_id, nonce, members, complete) ==
    /\ events' = [events EXCEPT !.chunk = @ + 1]
    /\ LET r == ProcessChunkRequests(guild_id, nonce, members, complete)
       IN  /\ chunk_objs' = r.objs
           /\ _chunk_requests' = r.registry
           /\ futures' = r.futs
           /\ guild_objs' = r.gobjs
    /\ received' = [ n \in DOMAIN received |->
                       IF /\ n \in Range(_chunk_requests)
                          /\ chunk_objs[n].guild_id = guild_id
                          /\ chunk_objs[n].nonce = nonce
                       THEN Append(received[n], members)
                       ELSE received[n] ]
    /\ UNCHANGED <<lruVars, configVars, entityVars, cacheVars, _guilds, ws_sent, _ready_task, _ready_state,
                   queues, tasks, calls, dispatched>>

\* ------------------------------------------- chunk_guild and its callers

\* A task created by asyncio.create_task that has not run yet.
NewTask ==
    [ pc |-> "start", must_cancel |-> FALSE, queue |-> None, states |-> << >>,
      guild |-> None, request |-> None, i |-> 1 ]

NewCall(kind, guild, unavailable, pc, request) ==
    [ kind |-> kind, guild |-> guild, unavailable |-> unavailable, pc |-> pc,
      request |-> request, future |-> None, outcome |-> "pending" ]

ChunkGuildAlwaysNew(registry, guild_id) == None

\* chunk_guild, line 1369: `self._chunk_requests.get(guild.id)`
ChunkGuildRequest(registry, guild_id) ==
    IF GuildKey(guild_id) \in DOMAIN registry THEN registry[GuildKey(guild_id)] ELSE None

\* request.wait(), lines 128-129, and get_future(), lines 136-137: the
\* request with the new future's index appended to its waiters.
AddWaiter(request, future) == [request EXCEPT !.waiters = Append(@, future)]

WaitFinallyKeeps(request, future) == request

\* request.wait(), line 133: `self.waiters.remove(future)`
WaitFinally(request, future) == [request EXCEPT !.waiters = Without(@, future)]

\* Future.cancel()
Cancel(future) ==
    IF FutureDone(future) THEN future ELSE [future EXCEPT !.state = "cancelled"]

\* query_members(guild, ..., cache, ...), lines 558-564: the request is
\* registered under its nonce, then the call awaits ws.request_chunks.
query_members(guild_id, cache) ==
    /\ guild_id \in DOMAIN _guilds
    /\ LET request == NewChunkRequest(chunk_objs, guild_id, cache)
       IN  /\ chunk_objs' = Append(chunk_objs, request)
           /\ received' = Append(received, << >>)
           /\ _chunk_requests' = Put(_chunk_requests, NonceKey(request.nonce), request.nonce)
           /\ calls' = Append(calls, NewCall("query_members", _guilds[guild_id],
                                             "absent", "chunker", request.nonce))
    /\ UNCHANGED <<lruVars, configVars, entityVars, cacheVars, guildVars, futures, ws_sent, _ready_task,
                   _ready_state, queues, tasks, dispatched, events>>

\* _chunk_and_dispatch starts: chunk_guild(guild) up to its first await.
\* A missing request is created and registered under guild.id and the call
\* awaits self.chunker; an existing one is waited on.
CallStart(c) ==
    /\ calls[c].pc = "start"
    /\ LET guild_id == guild_objs[calls[c].guild].id
           found == ChunkGuildRequest(_chunk_requests, guild_id)
           request == NewChunkRequest(chunk_objs, guild_id, member_cache_flags.joined)
           future == Len(futures) + 1
       IN  IF found = None
           THEN /\ chunk_objs' = Append(chunk_objs, request)
                /\ received' = Append(received, << >>)
                /\ _chunk_requests' = Put(_chunk_requests, GuildKey(guild_id), request.nonce)
                /\ calls' = [calls EXCEPT ![c].pc = "chunker", ![c].request = request.nonce]
                /\ UNCHANGED futures
           ELSE /\ futures' = Append(futures, NewFuture("wait"))
                /\ chunk_objs' = [chunk_objs EXCEPT ![found] = AddWaiter(@, future)]
                /\ calls' = [calls EXCEPT ![c].pc = "wait", ![c].request = found,
                                          ![c].future = future]
                /\ UNCHANGED <<_chunk_requests, received>>
    /\ UNCHANGED <<lruVars, configVars, entityVars, cacheVars, guildVars, ws_sent, _ready_task, _ready_state,
                   queues, tasks, dispatched, events>>

\* The request_chunks frame is written and the call goes on to
\* request.wait(): lines 568-576 of query_members, 1374-1377 of chunk_guild.
CallSent(c) ==
    /\ calls[c].pc = "chunker"
    /\ LET future == Len(futures) + 1
       IN  /\ ws_sent' = Append(ws_sent, calls[c].request)
           /\ futures' = Append(futures, NewFuture("wait"))
           /\ chunk_objs' = [chunk_objs EXCEPT ![calls[c].request] = AddWaiter(@, future)]
           /\ calls' = [calls EXCEPT ![c].pc = "wait", ![c].future = future]
    /\ UNCHANGED <<lruVars, configVars, entityVars, cacheVars, guildVars, _chunk_requests, received, _ready_task,
                   _ready_state, queues, tasks, dispatched, events>>

CallDispatchNothing(c) == dispatched

\* What _chunk_and_dispatch publishes when its wait is over, lines 1386-1389.
CallDispatch(c) ==
    IF calls[c].kind = "chunk_and_dispatch"
    THEN Dispatch(dispatched, AvailabilityEvent(calls[c].unavailable),
                  guild_objs[calls[c].guild].id, None)
    ELSE dispatched

\* The awaited future has a result: wait() returns it after its finally.
CallReturns(c) ==
    /\ calls[c].pc = "wait"
    /\ futures[calls[c].future].state = "done"
    /\ chunk_objs' = [chunk_objs EXCEPT ![calls[c].request] = WaitFinally(@, calls[c].future)]
    /\ calls' = [calls EXCEPT ![c].pc = "done", ![c].outcome = "returned"]
    /\ dispatched' = CallDispatch(c)
    /\ UNCHANGED <<lruVars, configVars, entityVars, cacheVars, guildVars, _chunk_requests, futures, ws_sent,
                   received, _ready_task, _ready_state, queues, tasks, events>>

\* asyncio.wait_for times out: 30 s around request.wait() in query_members
\* (line 576), 60 s around chunk_guild in _chunk_and_dispatch (line 1382).
\* The inner coroutine is cancelled where it is suspended: in wait() the
\* future is cancelled and the finally runs; in self.chunker nothing is
\* written.
CallTimeout(c) ==
    /\ calls[c].kind \in {"query_members", "chunk_and_dispatch"}
    /\ \/ calls[c].pc = "wait" /\ ~FutureDone(futures[calls[c].future])
       \/ calls[c].pc = "chunker" /\ calls[c].kind = "chunk_and_dispatch"
    /\ IF calls[c].pc = "wait"
       THEN /\ futures' = [futures EXCEPT ![calls[c].future] = Cancel(@)]
            /\ chunk_objs' = [chunk_objs EXCEPT ![calls[c].request] =
                                  WaitFinally(@, calls[c].future)]
       ELSE /\ chunk_objs' = [chunk_objs EXCEPT ![calls[c].request].unsent = TRUE]
            /\ UNCHANGED futures
    /\ calls' = [calls EXCEPT ![c].pc = "done", ![c].outcome = "timeout"]
    /\ dispatched' = CallDispatch(c)
    /\ UNCHANGED <<lruVars, configVars, entityVars, cacheVars, guildVars, _chunk_requests, ws_sent, received,
                   _ready_task, _ready_state, queues, tasks, events>>

\* ------------------------------------------------ readiness coordinator

FinishSilent(t, task, log) ==
    /\ _ready_state' = None
    /\ dispatched' = log
    /\ _ready_task' = None
    /\ tasks' = [tasks EXCEPT ![t] = [task EXCEPT !.pc = "done"]]

\* _delay_ready, lines 626-638: the queue attribute is deleted, "ready" is
\* handed to the handler and published, the task reference is cleared.
Finish(t, task, log) ==
    /\ _ready_state' = None
    /\ dispatched' = Dispatch(Dispatch(log, "call_handlers ready", None, t), "ready", None, t)
    /\ _ready_task' = None
    /\ tasks' = [tasks EXCEPT ![t] = [task EXCEPT !.pc = "done"]]

\* _delay_ready, line 597: back at the top of the loop self._ready_state is
\* read again.  A deleted attribute raises AttributeError, which no handler
\* of the coroutine catches: only the finally (line 638) runs.
LoopGet(t, task) ==
    IF _ready_state = None
    THEN /\ tasks' = [tasks EXCEPT ![t] = [task EXCEPT !.pc = "failed"]]
         /\ _ready_task' = None
    ELSE /\ tasks' = [tasks EXCEPT ![t] = [task EXCEPT !.pc = "get", !.queue = _ready_state]]
         /\ UNCHANGED _ready_task

Running(t) == tasks[t].pc \notin {"done", "failed", "cancelled"}

\* The task's first step.
TaskStart(t) ==
    /\ tasks[t].pc = "start" /\ ~tasks[t].must_cancel
    /\ LoopGet(t, tasks[t])
    /\ UNCHANGED <<lruVars, configVars, entityVars, cacheVars, guildVars, chunkVars, _ready_state, queues,
                   calls, dispatched, events>>

\* The queue hands out a guild, lines 602-608.
TaskGet(t) ==
    /\ tasks[t].pc = "get" /\ ~tasks[t].must_cancel
    /\ queues[tasks[t].queue] # << >>
    /\ LET guild == Head(queues[tasks[t].queue])
           guild_id == guild_objs[guild].id
           found == ChunkGuildRequest(_chunk_requests, guild_id)
           request == NewChunkRequest(chunk_objs, guild_id, member_cache_flags.joined)
           future == Len(futures) + 1
       IN  /\ queues' = [queues EXCEPT ![tasks[t].queue] = Tail(@)]
           /\ IF _guild_needs_chunking(guild_objs[guild])
              THEN IF found = None
                   THEN /\ chunk_objs' = Append(chunk_objs, request)
                        /\ received' = Append(received, << >>)
                        /\ _chunk_requests' =
                               Put(_chunk_requests, GuildKey(guild_id), request.nonce)
                        /\ tasks' = [tasks EXCEPT ![t].pc = "chunker", ![t].guild = guild,
                                                  ![t].request = request.nonce]
                        /\ UNCHANGED <<futures, dispatched, _ready_task>>
                   ELSE /\ futures' = Append(futures, NewFuture("get_future"))
                        /\ chunk_objs' = [chunk_objs EXCEPT ![found] = AddWaiter(@, future)]
                        /\ LoopGet(t, [tasks[t] EXCEPT
                                         !.states = Append(@, [guild |-> guild,
                                                               future |-> future])])
                        /\ UNCHANGED <<_chunk_requests, received, dispatched>>
              ELSE /\ dispatched' = Dispatch(dispatched,
                                             AvailabilityEvent(guild_objs[guild].unavailable),
                                             guild_id, t)
                   /\ LoopGet(t, tasks[t])
                   /\ UNCHANGED <<chunk_objs, _chunk_requests, futures, received>>
    /\ UNCHANGED <<lruVars, configVars, entityVars, cacheVars, guildVars, ws_sent, _ready_state, calls, events>>

\* chunk_guild(guild, wait=False) after self.chunker: the frame is written,
\* get_future() registers a waiter, lines 1374-1378 and 604.
TaskSent(t) ==
    /\ tasks[t].pc = "chunker" /\ ~tasks[t].must_cancel
    /\ LET future == Len(futures) + 1
       IN  /\ ws_sent' = Append(ws_sent, tasks[t].request)
           /\ futures' = Append(futures, NewFuture("get_future"))
           /\ chunk_objs' = [chunk_objs EXCEPT ![tasks[t].request] = AddWaiter(@, future)]
           /\ LoopGet(t, [tasks[t] EXCEPT
                            !.states = Append(@, [guild |-> tasks[t].guild,
                                                  future |-> future])])
    /\ UNCHANGED <<lruVars, configVars, entityVars, cacheVars, guildVars, _chunk_requests, received, _ready_state,
                   queues, calls, dispatched, events>>

\* The drain loop, lines 610-623, from entry `i` on: the next suspension is
\* the wait_for on that entry's future; with no entry left the task ends.
Drain(t, task, log) ==
    IF task.i > Len(task.states)
    THEN Finish(t, task, log)
    ELSE /\ tasks' = [tasks EXCEPT ![t] = [task EXCEPT !.pc = "drain"]]
         /\ dispatched' = log
         /\ UNCHANGED <<_ready_state, _ready_task>>

\* guild_ready_timeout passes with no guild announced, lines 599-600.
TaskIdleTimeout(t) ==
    /\ tasks[t].pc = "get" /\ ~tasks[t].must_cancel
    /\ queues[tasks[t].queue] = << >>
    /\ Drain(t, tasks[t], dispatched)
    /\ UNCHANGED <<lruVars, configVars, entityVars, cacheVars, guildVars, chunkVars, queues, calls, events>>

DrainDispatchNothing(t) == dispatched

\* What the drain loop publishes for entry i, lines 620-623.
DrainDispatch(t) ==
    LET guild == guild_objs[tasks[t].states[tasks[t].i].guild]
    IN  Dispatch(dispatched, AvailabilityEvent(guild.unavailable), guild.id, t)

\* The awaited future has its result, line 612.
TaskDrained(t) ==
    /\ tasks[t].pc = "drain" /\ ~tasks[t].must_cancel
    /\ futures[tasks[t].states[tasks[t].i].future].state = "done"
    /\ Drain(t, [tasks[t] EXCEPT !.i = @ + 1], DrainDispatch(t))
    /\ UNCHANGED <<lruVars, configVars, entityVars, cacheVars, guildVars, chunkVars, queues, calls, events>>

\* The 5 s wait_for times out, lines 612-618: the future is cancelled.
TaskDrainTimeout(t) ==
    /\ tasks[t].pc = "drain" /\ ~tasks[t].must_cancel
    /\ ~FutureDone(futures[tasks[t].states[tasks[t].i].future])
    /\ futures' = [futures EXCEPT ![tasks[t].states[tasks[t].i].future] = Cancel(@)]
    /\ Drain(t, [tasks[t] EXCEPT !.i = @ + 1], DrainDispatch(t))
    /\ UNCHANGED <<lruVars, configVars, entityVars, cacheVars, guildVars, chunk_objs, _chunk_requests, ws_sent,
                   received, queues, calls, events>>

\* The step of a task after Task.cancel().  A task that never ran ends
\* without running any of its code.  Otherwise CancelledError is raised at
\* the await: a wait_for on a future cancels that future, a cancelled
\* self.chunker writes nothing; lines 631-632 swallow the error and the
\* finally (line 638) clears the task reference.
TaskCancelled(t) ==
    /\ Running(t) /\ tasks[t].must_cancel
    /\ tasks' = [tasks EXCEPT ![t].pc = "cancelled"]
    /\ _ready_task' = IF tasks[t].pc = "start" THEN _ready_task ELSE None
    /\ futures' = IF tasks[t].pc = "drain"
                  THEN [futures EXCEPT ![tasks[t].states[tasks[t].i].future] = Cancel(@)]
                  ELSE futures
    /\ chunk_objs' = IF tasks[t].pc = "chunker"
                     THEN [chunk_objs EXCEPT ![tasks[t].request].unsent = TRUE]
                     ELSE chunk_objs
    /\ UNCHANGED <<lruVars, configVars, entityVars, cacheVars, guildVars, _chunk_requests, ws_sent, received,
                   _ready_state, queues, calls, dispatched, events>>

CancelNothing(ts, t) == ts

\* parse_ready, lines 641-642: `self._ready_task.cancel()`
CancelReadyTask(ts, t) ==
    IF t # None /\ ts[t].pc \notin {"done", "failed", "cancelled"}
    THEN [ts EXCEPT ![t].must_cancel = TRUE]
    ELSE ts

\* The guild lists of the READY payloads delivered.
ReadyGuildLists == { <<1>> }

\* parse_ready, with clear(views=False)
parse_ready(guild_ids) ==
    /\ events' = [events EXCEPT !.ready = @ + 1]
    /\ queues' = Append(queues, << >>)
    /\ _ready_state' = Len(queues) + 1
    /\ _private_channels' = << >>
    /\ _private_channels_by_user' = << >>
    /\ touched' = << >>
    /\ UNCHANGED returned
    /\ _messages' = << >>
    /\ _users' = StoreUser({}, SelfUser)
    /\ _emojis' = << >>
    /\ _stickers' = << >>
    /\ UNCHANGED <<max_messages, raised, store_events>>
    /\ LET r == AddGuildsFromData(guild_objs, << >>,
                                  [i \in DOMAIN guild_ids |-> UnavailableGuildData(guild_ids[i])])
       IN  /\ guild_objs' = r.gobjs
           /\ _guilds' = r.gmap
    /\ dispatched' = Dispatch(dispatched, "connect", None, None)
    /\ tasks' = Append(CancelReadyTask(tasks, _ready_task), NewTask)
    /\ _ready_task' = Len(tasks) + 1
    /\ _polls' = << >>
    /\ _voice_clients' = {}
    /\ view_stores' = ClearViewStore(view_stores, FALSE)
    /\ _view_store' = Len(view_stores')
    /\ UNCHANGED <<configVars, event_objs, _scheduled_events, chunkVars, calls>>

\* parse_guild_create
parse_guild_create(data) ==
    /\ events' = [events EXCEPT !.guild_create = @ + 1]
    /\ IF data.unavailable = "true"
       THEN UNCHANGED <<guildVars, queues, calls, dispatched>>
       ELSE LET r == GetCreateGuild(guild_objs, _guilds, data)
            IN  /\ guild_objs' = r.gobjs
                /\ _guilds' = r.gmap
                /\ IF _ready_state # None
                   THEN /\ queues' = [queues EXCEPT ![_ready_state] = Append(@, r.guild)]
                        /\ UNCHANGED <<calls, dispatched>>
                   ELSE IF _guild_needs_chunking(r.gobjs[r.guild])
                        THEN /\ calls' = Append(calls,
                                   NewCall("chunk_and_dispatch", r.guild,
                                           data.unavailable, "start", None))
                             /\ UNCHANGED <<queues, dispatched>>
                        ELSE /\ dispatched' = Dispatch(dispatched,
                                   AvailabilityEvent(data.unavailable), data.id, None)
                             /\ UNCHANGED <<queues, calls>>
    /\ UNCHANGED <<lruVars, configVars, entityVars, cacheVars, chunkVars, _ready_task, _ready_state, tasks>>

\* ------------------------------------- sharded readiness coordinator

\* guild.shard_id: the shard that owns the guild, by hash of its id.
ShardOf(guild_id) == shard_ids[(guild_id % Len(shard_ids)) + 1]

\* _delay_ready, line 2021: `max_concurrency = len(self.shard_ids) * 2`
MaxConcurrency == Len(shard_ids) * 2

\* The sharded _delay_ready task created by asyncio.create_task: `states` is
\* `processed`, `bucket` is `current_bucket`.
NewShardTask ==
    [ pc |-> "launch", must_cancel |-> FALSE, queue |-> None, states |-> << >>,
      guild |-> None, request |-> None, i |-> 1, bucket |-> << >> ]

\* self.dispatch("shard_connect" | "shard_ready", shard_id)
DispatchShard(log, name, shard_id, by) ==
    Append(log, [name |-> name, guild |-> None, by |-> by, shard |-> shard_id])

EnsureReadyTaskAlways(ts, t) == Append(ts, NewShardTask)

\* Lines 2130-2131: `if self._ready_task is None: ... create_task(...)`
EnsureReadyTask(ts, t) == IF t = None THEN Append(ts, NewShardTask) ELSE ts

\* AutoShardedConnectionState.parse_ready: no clear(), the queue and the
\* coordinator task are created only when there is none.  The message
\* cache is rebound to the new Guild objects.
sharded_parse_ready(guild_ids, shard_id) ==
    /\ events' = [events EXCEPT !.ready = @ + 1]
    /\ IF _ready_state = None
       THEN /\ queues' = Append(queues, << >>)
            /\ _ready_state' = Len(queues) + 1
       ELSE UNCHANGED <<queues, _ready_state>>
    /\ _users' = _users \cup {SelfUser.id}
    /\ LET r == AddGuildsFromData(guild_objs, _guilds,
                                  [i \in DOMAIN guild_ids |-> UnavailableGuildData(guild_ids[i])])
       IN  /\ guild_objs' = r.gobjs
           /\ _guilds' = r.gmap
           /\ _messages' = UpdateMessageReferences(_messages, r.gmap)
    /\ dispatched' = DispatchShard(Dispatch(dispatched, "connect", None, None),
                                   "shard_connect", shard_id, None)
    /\ tasks' = EnsureReadyTask(tasks, _ready_task)
    /\ _ready_task' = IF _ready_task = None THEN Len(tasks) + 1 ELSE _ready_task
    /\ UNCHANGED <<lruVars, configVars, entityVars, max_messages, _emojis, _stickers, raised,
                   store_events, chunkVars, calls>>

\* Back at the top of the loop, line 2027: self._ready_state is read again.
ShardLoopGet(t, task) ==
    IF _ready_state = None
    THEN /\ tasks' = [tasks EXCEPT ![t] = [task EXCEPT !.pc = "failed"]]
         /\ _ready_task' = None
    ELSE /\ tasks' = [tasks EXCEPT ![t] = [task EXCEPT !.pc = "shard_get",
                                                       !.queue = _ready_state]]
         /\ UNCHANGED _ready_task

\* Lines 2052-2053: `asyncio.ensure_future(self.chunk_guild(guild))` joins
\* the bucket and `processed`.
Spawn(task, guild, bucket) ==
    [task EXCEPT !.bucket = Append(bucket, Len(calls) + 1),
                 !.states = Append(@, [guild |-> guild, call |-> Len(calls) + 1])]

ShardsLaunchedNoWait(launched) == TRUE

\* `await self.shards_launched.wait()`, line 2019: only a set event lets the
\* task go on.
ShardsLaunchedWait(launched) == launched

\* The task's first step: shards_launched is set, the loop is entered.
ShardTaskLaunched(t) ==
    /\ tasks[t].pc = "launch"
    /\ ShardsLaunchedWait(shards_launched)
    /\ ShardLoopGet(t, tasks[t])
    /\ UNCHANGED <<lruVars, configVars, entityVars, cacheVars, guildVars, chunkVars, _ready_state, queues,
                   calls, dispatched, events>>

\* The queue hands out a guild, lines 2026-2058.
ShardTaskGet(t) ==
    /\ tasks[t].pc = "shard_get"
    /\ queues[tasks[t].queue] # << >>
    /\ LET guild == Head(queues[tasks[t].queue])
       IN  /\ queues' = [queues EXCEPT ![tasks[t].queue] = Tail(@)]
           /\ IF _guild_needs_chunking(guild_objs[guild])
              THEN IF Len(tasks[t].bucket) >= MaxConcurrency
                   THEN /\ tasks' = [tasks EXCEPT ![t].pc = "bucket", ![t].guild = guild]
                        /\ UNCHANGED <<calls, _ready_task>>
                   ELSE /\ calls' = Append(calls, NewCall("chunk_guild", guild, "absent",
                                                          "start", None))
                        /\ ShardLoopGet(t, Spawn(tasks[t], guild, tasks[t].bucket))
              ELSE /\ ShardLoopGet(t, [tasks[t] EXCEPT
                                         !.states = Append(@, [guild |-> guild,
                                                               call |-> None])])
                   /\ UNCHANGED calls
    /\ UNCHANGED <<lruVars, configVars, entityVars, cacheVars, guildVars, chunkVars, _ready_state,
                   dispatched, events>>

\* The wait for the full bucket is over, by completion or by its timeout,
\* lines 2040-2053: the bucket restarts with the guild that was held back.
ShardTaskBucketWaited(t) ==
    /\ tasks[t].pc = "bucket"
    /\ calls' = Append(calls, NewCall("chunk_guild", tasks[t].guild, "absent", "start", None))
    /\ ShardLoopGet(t, Spawn(tasks[t], tasks[t].guild, << >>))
    /\ UNCHANGED <<lruVars, configVars, entityVars, cacheVars, guildVars, chunkVars, _ready_state, queues,
                   dispatched, events>>

\* The shard ids of the groups of `processed`, lines 2060-2061.
GroupIds(task) == { ShardOf(guild_objs[task.states[k].guild].id) : k \in DOMAIN task.states }

\* The i-th group in the order of sorted().
GroupAt(task, i) ==
    CHOOSE x \in GroupIds(task) : Cardinality({ y \in GroupIds(task) : y < x }) = i - 1

RECURSIVE DispatchChildrenReadyFirst(_, _, _, _)
DispatchChildrenReadyFirst(log, states, shard_id, t) ==
    IF states = << >> THEN log
    ELSE LET guild == guild_objs[Head(states).guild]
             first == IF \E k \in DOMAIN log : log[k].name = "shard_ready" /\ log[k].by = t
                                               /\ log[k].shard = shard_id
                      THEN log ELSE DispatchShard(log, "shard_ready", shard_id, t)
         IN  DispatchChildrenReadyFirst(
                 IF ShardOf(guild.id) = shard_id
                 THEN Dispatch(first, AvailabilityEvent(guild.unavailable), guild.id, t)
                 ELSE first,
                 Tail(states), shard_id, t)

\* What is published for a group, lines 2077-2083: each guild's
\* availability, then "shard_ready".
RECURSIVE DispatchChildren(_, _, _, _)
DispatchChildren(log, states, shard_id, t) ==
    IF states = << >> THEN DispatchShard(log, "shard_ready", shard_id, t)
    ELSE LET guild == guild_objs[Head(states).guild]
         IN  DispatchChildren(
                 IF ShardOf(guild.id) = shard_id
                 THEN Dispatch(log, AvailabilityEvent(guild.unavailable), guild.id, t)
                 ELSE log,
                 Tail(states), shard_id, t)

\* From group i on: the next suspension is that group's sane_wait_for;
\* with no group left the task ends, lines 2085-2100.
ShardDrain(t, task, log) ==
    IF task.i > Cardinality(GroupIds(task))
    THEN Finish(t, task, log)
    ELSE /\ tasks' = [tasks EXCEPT ![t] = [task EXCEPT !.pc = "shard_wait"]]
         /\ dispatched' = log
         /\ UNCHANGED <<_ready_state, _ready_task>>

\* guild_ready_timeout passes with no guild announced, lines 2030-2031.
ShardTaskIdleTimeout(t) ==
    /\ tasks[t].pc = "shard_get"
    /\ queues[tasks[t].queue] = << >>
    /\ ShardDrain(t, tasks[t], dispatched)
    /\ UNCHANGED <<lruVars, configVars, entityVars, cacheVars, guildVars, chunkVars, queues, calls, events>>

\* The wait for a group is over, by completion or by its timeout, lines
\* 2062-2083.
ShardTaskShardWaited(t) ==
    /\ tasks[t].pc = "shard_wait"
    /\ ShardDrain(t, [tasks[t] EXCEPT !.i = @ + 1],
                  DispatchChildren(dispatched, tasks[t].states,
                                   GroupAt(tasks[t], tasks[t].i), t))
    /\ UNCHANGED <<lruVars, configVars, entityVars, cacheVars, guildVars, chunkVars, queues, calls, events>>

vars == <<lruVars, configVars, entityVars, cacheVars, guildVars, chunkVars, readyVars>>

ConfigIs(c) ==
    /\ max_messages = MaxMessages(c)
    /\ _chunk_guilds = c.chunk_guilds
    /\ _intents = c.intents
    /\ member_cache_flags = c.member_cache_flags
    /\ shard_ids = ShardIdsOf(c)
    /\ shards_launched = ("shards_launched" \in DOMAIN c /\ c.shards_launched)
    /\ guild_ready_timeout = DefaultGuildReadyTimeout
    /\ options = c
    /\ constructed = TRUE

\* ConnectionState.__init__ with clear(), lines 172-292
InitState ==
    /\ _private_channels = << >>
    /\ _private_channels_by_user = << >>
    /\ touched = << >>
    /\ returned = << >>
    /\ _messages = << >>
    /\ _users = {}
    /\ _emojis = << >>
    /\ _stickers = << >>
    /\ raised = {}
    /\ store_events = [message_create |-> 0, other |-> 0]
    /\ event_objs = << >>
    /\ _scheduled_events = << >>
    /\ _polls = << >>
    /\ _voice_clients = {}
    /\ view_stores = << {} >>
    /\ _view_store = 1
    /\ guild_objs = << >>
    /\ _guilds = << >>
    /\ chunk_objs = << >>
    /\ _chunk_requests = << >>
    /\ futures = << >>
    /\ ws_sent = << >>
    /\ received = << >>
    /\ _ready_task = None
    /\ _ready_state = None
    /\ queues = << >>
    /\ tasks = << >>
    /\ calls = << >>
    /\ dispatched = << >>
    /\ events = [ready |-> 0, guild_create |-> 0, chunk |-> 0]

\* ------------------------------------------- the private-channel store

\* Constructed with no options: Intents.default() has neither privileged
\* intent, so chunk_guilds_at_startup defaults to False.
DefaultConfig ==
    [chunk_guilds |-> FALSE, intents |-> [members |-> FALSE, presences |-> FALSE],
     member_cache_flags |-> [joined |-> FALSE]]

InitLRU == InitState /\ ConfigIs(DefaultConfig)

AddChannel == \E c \in HotChannels : _add_private_channel(c)

GetChannel == \E i \in HotIds : _get_private_channel(i)

RemoveChannel == \E c \in RemovedChannels : _remove_private_channel(c)

NextLRU ==
    \/ AddNextChannel
    \/ AddChannel
    \/ GetChannel
    \/ RemoveChannel

SpecLRU == InitLRU /\ [][NextLRU]_vars

\* ------------------------------------------ the readiness coordinator

\* Member chunking enabled or not, with the members intent.
ReadyConfigs ==
    { c \in ValidConfigs :
        c.intents.members /\ ~c.intents.presences /\ c.member_cache_flags.joined }

InitReady == InitState /\ \E c \in ReadyConfigs : ConfigIs(c)

\* The GUILD_CREATE payloads of SpecReady.
ReadyPayloads ==
    { [id |-> 1, unavailable |-> "false", chunked |-> FALSE, large |-> FALSE],
      [id |-> MaxGuilds, unavailable |-> "absent", chunked |-> FALSE, large |-> FALSE],
      [id |-> MaxGuilds, unavailable |-> "absent", chunked |-> TRUE, large |-> FALSE] }

\* The pages of SpecReady.
ReadyPages == { <<Member(1, 1)>> }

Handshake ==
    /\ events.ready < MaxHandshakes
    /\ \E guild_ids \in ReadyGuildLists : parse_ready(guild_ids)

GuildCreate ==
    /\ events.guild_create < MaxGuildCreates
    /\ \E data \in ReadyPayloads : parse_guild_create(data)

ReadyPage ==
    /\ events.chunk < MaxPages
    /\ \E guild_id \in Guilds, nonce \in Range(ws_sent), members \in ReadyPages,
          complete \in BOOLEAN :
           parse_guild_members_chunk(guild_id, nonce, members, complete)

Start == \E t \in DOMAIN tasks : TaskStart(t)

Get == \E t \in DOMAIN tasks : TaskGet(t)

Sent == \E t \in DOMAIN tasks : TaskSent(t)

IdleTimeout == \E t \in DOMAIN tasks : TaskIdleTimeout(t)

Drained == \E t \in DOMAIN tasks : TaskDrained(t)

DrainTimeout == \E t \in DOMAIN tasks : TaskDrainTimeout(t)

Cancelled == \E t \in DOMAIN tasks : TaskCancelled(t)

NextReady ==
    \/ Handshake
    \/ GuildCreate
    \/ ReadyPage
    \/ Start
    \/ Get
    \/ Sent
    \/ IdleTimeout
    \/ Drained
    \/ DrainTimeout
    \/ Cancelled

SpecReady == InitReady /\ [][NextReady]_vars

\* ---------------------------------------------- the chunk request manager

\* Member chunking at startup enabled, joined members cached.
ChunkConfigs ==
    { c \in ValidConfigs :
        c.chunk_guilds /\ ~c.intents.presences /\ c.member_cache_flags.joined }

InitChunk == InitState /\ \E c \in ChunkConfigs : ConfigIs(c)

\* The GUILD_CREATE payloads of SpecChunk.
ChunkPayloads ==
    { [id |-> 1, unavailable |-> "absent", chunked |-> FALSE, large |-> FALSE] }

\* The page of SpecChunk delivered after k earlier pages: one member, k + 1.
ChunkPage(k) == <<Member(k + 1, 1)>>

Queries == { c \in DOMAIN calls : calls[c].kind = "query_members" }

\* The connection's first event is its handshake.
HandshakeOnce ==
    /\ events.ready < MaxChunkHandshakes
    /\ events.guild_create = 0 /\ events.chunk = 0 /\ calls = << >>
    /\ \E guild_ids \in ReadyGuildLists : parse_ready(guild_ids)

GuildCreateChunk ==
    /\ events.guild_create < MaxChunkGuildCreates
    /\ \E data \in ChunkPayloads : parse_guild_create(data)

Page ==
    /\ events.chunk < MaxChunkPages
    /\ \E guild_id \in Guilds, nonce \in PageNonces \ {UnknownNonce},
          complete \in BOOLEAN :
           parse_guild_members_chunk(guild_id, nonce, ChunkPage(events.chunk), complete)

Query ==
    /\ Cardinality(Queries) < MaxQueries
    /\ \E guild_id \in Guilds, cache \in BOOLEAN : query_members(guild_id, cache)

ChunkAndDispatch == \E c \in DOMAIN calls : CallStart(c)

RequestSent == \E c \in DOMAIN calls : CallSent(c)

WaitReturns == \E c \in DOMAIN calls : CallReturns(c)

WaitTimeout == \E c \in DOMAIN calls : CallTimeout(c)

NextChunk ==
    \/ HandshakeOnce
    \/ GuildCreateChunk
    \/ Page
    \/ Query
    \/ ChunkAndDispatch
    \/ RequestSent
    \/ WaitReturns
    \/ WaitTimeout
    \/ Start
    \/ Get
    \/ Sent
    \/ IdleTimeout
    \/ Drained
    \/ DrainTimeout

SpecChunk == InitChunk /\ [][NextChunk]_vars

\* The event loop runs a coordinator task that can take a step, and a call
\* that can: a task waiting on the queue gets its item or its timeout, a
\* wait_for gets its result or its timeout.
CoordinatorStep == Start \/ Get \/ Sent \/ IdleTimeout \/ Drained \/ DrainTimeout

CallStep == ChunkAndDispatch \/ RequestSent \/ WaitReturns \/ WaitTimeout

SpecChunkFair ==
    InitChunk /\ [][NextChunk]_vars /\ WF_vars(CoordinatorStep) /\ WF_vars(CallStep)

\* The GUILD_CREATE payloads of SpecDrain: two guilds, both to be chunked.
DrainPayloads ==
    { [id |-> 1, unavailable |-> "false", chunked |-> FALSE, large |-> FALSE],
      [id |-> MaxGuilds, unavailable |-> "absent", chunked |-> FALSE, large |-> FALSE] }

GuildCreateDrain ==
    /\ events.guild_create < MaxDrainGuildCreates
    /\ \E data \in DrainPayloads : parse_guild_create(data)

\* One handshake, then guilds of two kinds announced in any order while the
\* coordinator collects, drains or has finished.
NextDrain ==
    \/ HandshakeOnce
    \/ GuildCreateDrain
    \/ Page
    \/ ChunkAndDispatch
    \/ RequestSent
    \/ WaitReturns
    \/ WaitTimeout
    \/ Start
    \/ Get
    \/ Sent
    \/ IdleTimeout
    \/ Drained
    \/ DrainTimeout

SpecDrain == InitChunk /\ [][NextDrain]_vars

\* ------------------------------------------------------ the message cache

\* max_messages given as None, as 0, as a negative value and as
\* MaxMessagesOption; no member chunking.
MsgConfigs ==
    { [chunk_guilds |-> FALSE, intents |-> [members |-> FALSE, presences |-> FALSE],
       member_cache_flags |-> [joined |-> FALSE], max_messages |-> v] :
        v \in { << >>, <<0>>, <<0 - 1>>, <<MaxMessagesOption>> } }

InitMsg == InitState /\ \E c \in MsgConfigs : ConfigIs(c)

\* The k-th MESSAGE_CREATE carries message id k: in a guild channel of
\* guild 1 or in a private channel.
MessageCreate ==
    /\ store_events.message_create < MaxMessageCreates
    /\ \E g \in {None, 1} :
          parse_message_create([id |-> store_events.message_create + 1, guild_id |-> g])

MessageDelete ==
    /\ store_events.other < MaxMessageEvents
    /\ \E msg_id \in {1, 2} : parse_message_delete(msg_id)

MessageDeleteBulk ==
    /\ store_events.other < MaxMessageEvents
    /\ \E message_ids \in { {1, 3}, {2, MaxMessageCreates + 1} } :
          parse_message_delete_bulk(message_ids)

GuildDeleteMsg ==
    /\ store_events.other < MaxMessageEvents
    /\ \E unavailable \in BOOLEAN : parse_guild_delete(1, unavailable)

GuildCreateMsg ==
    /\ events.guild_create < 1
    /\ parse_guild_create([id |-> 1, unavailable |-> "absent", chunked |-> FALSE,
                           large |-> FALSE])

\* The handshake: its coordinator task has not run yet.
HandshakeMsg ==
    /\ events.ready < MaxMsgHandshakes
    /\ \E guild_ids \in ReadyGuildLists : parse_ready(guild_ids)

NextMsg ==
    \/ MessageCreate
    \/ MessageDelete
    \/ MessageDeleteBulk
    \/ GuildDeleteMsg
    \/ GuildCreateMsg
    \/ HandshakeMsg

SpecMsg == InitMsg /\ [][NextMsg]_vars

\* ------------------------------------------------------- the entity store

\* Constructed with no options but the member cache enabled.
StoreConfig ==
    [chunk_guilds |-> FALSE, intents |-> [members |-> TRUE, presences |-> FALSE],
     member_cache_flags |-> [joined |-> TRUE]]

InitStore == InitState /\ ConfigIs(StoreConfig)

\* A guild id that no GUILD_CREATE announces.
UnknownGuild == MaxGuilds + 1

\* Emoji and sticker ids are snowflakes: the k-th id of guild g.
EntityId(g, k) == 10 * g + k

EntityLists(g) == { <<EntityId(g, 1)>>, <<EntityId(g, 1), EntityId(g, 2)>> }

\* The user of the member events: not the client's own.
OtherUser == UserData(2, "0")

\* The users of the member events of cached guilds.
StoreUsers == { OtherUser, UserData(3, "0") }

\* A GUILD_CREATE for a guild that is not cached.
GuildJoin ==
    /\ events.guild_create < MaxGuilds
    /\ \E g \in Guilds \ DOMAIN _guilds :
          parse_guild_create([id |-> g, unavailable |-> "absent", chunked |-> TRUE,
                              large |-> FALSE])

\* The first private channel is opened.
AddGroupChannel ==
    /\ _private_channels = << >>
    /\ DoAdd(GroupChannel(1))

GuildDelete ==
    /\ store_events.other < MaxStoreEvents
    /\ \E g \in {1, UnknownGuild}, unavailable \in BOOLEAN : parse_guild_delete(g, unavailable)

GuildEmojisUpdate ==
    /\ store_events.other < MaxStoreEvents
    /\ \E g \in Guilds \cup {UnknownGuild} :
          \E emojis \in EntityLists(g) : parse_guild_emojis_update(g, emojis)

GuildStickersUpdate ==
    /\ store_events.other < MaxStoreEvents
    /\ \E g \in {1, UnknownGuild} :
          parse_guild_stickers_update(g, <<EntityId(g, 1)>>)

GuildMemberAdd ==
    /\ store_events.other < MaxStoreEvents
    /\ \/ parse_guild_member_add(UnknownGuild, OtherUser)
       \/ \E user \in StoreUsers : parse_guild_member_add(1, user)

GuildMemberRemove ==
    /\ store_events.other < MaxStoreEvents
    /\ \E g \in {1, UnknownGuild} : parse_guild_member_remove(g, OtherUser)

PresenceUpdate ==
    /\ store_events.other < MaxStoreEvents
    /\ \/ parse_presence_update(UnknownGuild, OtherUser, "online")
       \/ \E user \in StoreUsers : parse_presence_update(1, user, "online")

ChannelUpdate ==
    /\ store_events.other < MaxStoreEvents
    /\ \E group \in BOOLEAN, channel_id \in {1, 2} : parse_channel_update(group, channel_id)

NextStore ==
    \/ GuildJoin
    \/ AddGroupChannel
    \/ GuildDelete
    \/ GuildEmojisUpdate
    \/ GuildStickersUpdate
    \/ GuildMemberAdd
    \/ GuildMemberRemove
    \/ PresenceUpdate
    \/ ChannelUpdate

SpecStore == InitStore /\ [][NextStore]_vars

\* ------------------------------------------------- the backfill gate

\* Every accepted combination of chunk_guilds_at_startup and the two
\* intents, joined members cached, for a ConnectionState and for an
\* AutoShardedConnectionState with one shard.
GateConfigs ==
    { [chunk_guilds |-> c.chunk_guilds, intents |-> c.intents,
       member_cache_flags |-> c.member_cache_flags, shard_ids |-> ids,
       shards_launched |-> ids # << >>] :
        c \in { v \in ValidConfigs : v.member_cache_flags.joined },
        ids \in { << >>, <<0>> } }

InitGate == InitState /\ \E c \in GateConfigs : ConfigIs(c)

\* The guild announced with all its members.
ChunkedGuild == 1

\* The GUILD_CREATE payloads of SpecGate: the chunked guild and another
\* guild, each large or not.
GatePayloads ==
    { [id |-> ChunkedGuild, unavailable |-> "false", chunked |-> TRUE, large |-> l] :
        l \in BOOLEAN }
    \cup
    { [id |-> MaxGuilds, unavailable |-> "absent", chunked |-> FALSE, large |-> l] :
        l \in BOOLEAN }

GateHandshake ==
    /\ shard_ids = << >>
    /\ events.ready < MaxGateHandshakes
    /\ \E guild_ids \in ReadyGuildLists : parse_ready(guild_ids)

ShardHandshake ==
    /\ shard_ids # << >>
    /\ events.ready < MaxGateHandshakes
    /\ \E guild_ids \in ReadyGuildLists, k \in DOMAIN shard_ids :
          sharded_parse_ready(guild_ids, shard_ids[k])

GateGuildCreate ==
    /\ events.guild_create < MaxGateGuildCreates
    /\ \E data \in GatePayloads : parse_guild_create(data)

ShardLaunched == \E t \in DOMAIN tasks : ShardTaskLaunched(t)

ShardGet == \E t \in DOMAIN tasks : ShardTaskGet(t)

ShardBucketWaited == \E t \in DOMAIN tasks : ShardTaskBucketWaited(t)

ShardIdleTimeout == \E t \in DOMAIN tasks : ShardTaskIdleTimeout(t)

ShardWaited == \E t \in DOMAIN tasks : ShardTaskShardWaited(t)

NextGate ==
    \/ GateHandshake
    \/ ShardHandshake
    \/ GateGuildCreate
    \/ Start
    \/ Get
    \/ Sent
    \/ IdleTimeout
    \/ DrainTimeout
    \/ ShardLaunched
    \/ ShardGet
    \/ ShardBucketWaited
    \/ ShardIdleTimeout
    \/ ShardWaited
    \/ ChunkAndDispatch
    \/ RequestSent
    \/ WaitTimeout

SpecGate == InitGate /\ [][NextGate]_vars

\* ------------------------------------------- the sharded coordinator

\* Guilds chunked at startup, one shard or two, the shards not launched yet.
ShardConfigs ==
    { [chunk_guilds |-> TRUE, intents |-> [members |-> TRUE, presences |-> FALSE],
       member_cache_flags |-> [joined |-> TRUE], shard_ids |-> ids,
       shards_launched |-> FALSE] :
        ids \in { <<0>>, <<0, 1>> } }

InitShard == InitState /\ \E c \in ShardConfigs : ConfigIs(c)

ShardGuildIds == 1..MaxShardGuilds

\* The guild list of a shard's READY payload: the guilds it owns.
ShardGuildList(shard_id) ==
    SelectSeq([g \in ShardGuildIds |-> g], LAMBDA g : ShardOf(g) = shard_id)

\* The client has launched its last shard: shards_launched.set().
ShardsLaunched ==
    /\ ~shards_launched
    /\ shards_launched' = TRUE
    /\ UNCHANGED <<lruVars, _chunk_guilds, _intents, member_cache_flags, shard_ids,
                   guild_ready_timeout, options, constructed, entityVars, cacheVars,
                   guildVars, chunkVars, readyVars>>

ShardReady ==
    /\ events.ready < MaxShardHandshakes
    /\ \E k \in DOMAIN shard_ids :
          sharded_parse_ready(ShardGuildList(shard_ids[k]), shard_ids[k])

\* A GUILD_CREATE of a readiness cycle, for a guild of the READY payloads.
ShardGuildCreate ==
    /\ events.guild_create < MaxShardGuildCreates
    /\ _ready_state # None
    /\ \E g \in DOMAIN _guilds :
          parse_guild_create([id |-> g, unavailable |-> "false", chunked |-> FALSE,
                              large |-> FALSE])

\* The only page of a request that is on the wire.
ShardPage ==
    /\ events.chunk < MaxShardPages
    /\ \E n \in Range(ws_sent) :
          parse_guild_members_chunk(chunk_objs[n].guild_id, n, <<Member(1, 1)>>, TRUE)

NextShard ==
    \/ ShardsLaunched
    \/ ShardReady
    \/ ShardGuildCreate
    \/ ShardPage
    \/ ShardLaunched
    \/ ShardGet
    \/ ShardBucketWaited
    \/ ShardIdleTimeout
    \/ ShardWaited
    \/ ChunkAndDispatch
    \/ RequestSent
    \/ WaitReturns

SpecShard == InitShard /\ [][NextShard]_vars

\* --------------------------------------------------- pages and the member map

\* The pages of SpecMembers: members 1 and 2, with and without a joined
\* timestamp.
MemberPages ==
    { <<Member(1, j)>> : j \in {None, 1, 2} }
        \cup { <<Member(1, j), Member(2, 1)>> : j \in {None, 2} }

MembersGuildCreate ==
    /\ events.guild_create < MaxMemberEvents
    /\ 1 \notin DOMAIN _guilds
    /\ parse_guild_create([id |-> 1, unavailable |-> "absent", chunked |-> TRUE,
                           large |-> FALSE])

MembersGuildDelete ==
    /\ store_events.other < MaxMemberEvents
    /\ parse_guild_delete(1, FALSE)

MembersQuery ==
    /\ Cardinality(Queries) < MaxMemberQueries
    /\ \E cache \in BOOLEAN : query_members(1, cache)

MembersPage ==
    /\ events.chunk < MaxMemberPages
    /\ \E nonce \in Range(ws_sent), members \in MemberPages, complete \in BOOLEAN :
          parse_guild_members_chunk(1, nonce, members, complete)

\* A guild that comes and goes, queries with and without caching, and the
\* pages that answer them.
NextMembers ==
    \/ MembersGuildCreate
    \/ MembersGuildDelete
    \/ MembersQuery
    \/ RequestSent
    \/ MembersPage
    \/ WaitReturns
    \/ WaitTimeout

SpecMembers == InitStore /\ [][NextMembers]_vars

\* ------------------------------------------------ guild removal and messages

\* The k-th MESSAGE_CREATE carries message id k: in a channel of a guild or
\* in a private channel.
DeleteMessageCreate ==
    /\ store_events.message_create < MaxDeleteMessages
    /\ \E g \in {None} \cup Guilds :
          parse_message_create([id |-> store_events.message_create + 1, guild_id |-> g])

\* Guilds joined, given emojis and left or lost, and messages in their
\* channels.
NextDelete ==
    \/ GuildJoin
    \/ GuildEmojisUpdate
    \/ DeleteMessageCreate
    \/ GuildDelete

SpecDelete == InitStore /\ [][NextDelete]_vars

\* ------------------------------------------------- updates of cached entities

\* The scheduled-event payloads: event 1, under two names.
EventPayloads == { [id |-> 1, name |-> n, user_count |-> 0] : n \in {"a", "b"} }

EventsGuildJoin ==
    /\ 1 \notin DOMAIN _guilds
    /\ parse_guild_create([id |-> 1, unavailable |-> "absent", chunked |-> TRUE,
                           large |-> FALSE])

EventsMemberAdd ==
    /\ store_events.other < MaxEntityEvents
    /\ IF guild_objs = << >> THEN TRUE ELSE guild_objs[1].members = << >>
    /\ parse_guild_member_add(1, OtherUser)

GuildUpdate ==
    /\ store_events.other < MaxEntityEvents
    /\ \E large \in BOOLEAN :
          parse_guild_update([id |-> 1, chunked |-> TRUE, large |-> large])

ScheduledEventCreate ==
    /\ store_events.other < MaxEntityEvents
    /\ event_objs = << >>
    /\ \E data \in EventPayloads : parse_guild_scheduled_event_create(1, data)

ScheduledEventUpdate ==
    /\ store_events.other < MaxEntityEvents
    /\ \E data \in EventPayloads : parse_guild_scheduled_event_update(1, data)

ScheduledEventUserAdd ==
    /\ store_events.other < MaxEntityEvents
    /\ \E user \in StoreUsers : parse_guild_scheduled_event_user_add(1, user.id, 1)

ScheduledEventUserRemove ==
    /\ store_events.other < MaxEntityEvents
    /\ \E user \in StoreUsers : parse_guild_scheduled_event_user_remove(1, user.id, 1)

NextEvents ==
    \/ EventsGuildJoin
    \/ EventsMemberAdd
    \/ GuildUpdate
    \/ ScheduledEventCreate
    \/ ScheduledEventUpdate
    \/ ScheduledEventUserAdd
    \/ ScheduledEventUserRemove

SpecEvents == InitStore /\ [][NextEvents]_vars

\* ------------------------------------------------------------ poll votes

\* The polls stored: answers 1 and 2; without results, with no counter yet
\* and with a counter for answer 1.
StoredPolls ==
    { [answers |-> {1, 2}, results |-> r] :
        r \in { << >>, << << >> >>, << Put(<< >>, 1, 1) >> } }

\* Polls are stored for messages 1 and 2.
StorePoll ==
    \E message_id \in {1, 2} \ DOMAIN _polls, poll \in StoredPolls :
        store_poll(poll, message_id)

\* The only MESSAGE_CREATE is for message 1: message 2 is never cached.
PollMessageCreate ==
    /\ store_events.message_create < 1
    /\ parse_message_create([id |-> 1, guild_id |-> None])

\* Votes for the stored answers and for answer 3, which no poll has.
PollVoteAdd ==
    /\ store_events.other < MaxPollEvents
    /\ \E message_id \in {1, 2}, answer_id \in 1..3 :
          parse_message_poll_vote(TRUE, message_id, OtherUser.id, answer_id)

PollVoteRemove ==
    /\ store_events.other < MaxPollEvents
    /\ \E message_id \in {1, 2}, answer_id \in 1..3 :
          parse_message_poll_vote(FALSE, message_id, OtherUser.id, answer_id)

NextPolls ==
    \/ StorePoll
    \/ PollMessageCreate
    \/ PollVoteAdd
    \/ PollVoteRemove

SpecPolls == InitStore /\ [][NextPolls]_vars

\* ------------------------------------------- what a handshake clears

ClearHandshake ==
    /\ events.ready < MaxClearHandshakes
    /\ \E guild_ids \in ReadyGuildLists : parse_ready(guild_ids)

\* Guild MaxGuilds is joined once: no handshake lists it.
ClearGuildJoin ==
    /\ MaxGuilds \notin DOMAIN _guilds
    /\ events.guild_create < 1
    /\ parse_guild_create([id |-> MaxGuilds, unavailable |-> "absent", chunked |-> TRUE,
                           large |-> FALSE])

ClearEmojisUpdate ==
    /\ store_events.other < 1
    /\ parse_guild_emojis_update(MaxGuilds, <<EntityId(MaxGuilds, 1)>>)

ClearMessageCreate ==
    /\ store_events.message_create < 1
    /\ parse_message_create([id |-> 1, guild_id |-> None])

ClearStorePoll ==
    /\ _polls = << >>
    /\ store_events.message_create = 1
    /\ store_poll([answers |-> {1, 2}, results |-> << >>], 1)

AddVoiceClient ==
    /\ _voice_clients = {}
    /\ MaxGuilds \in DOMAIN _guilds
    /\ _add_voice_client(MaxGuilds)

StoreView ==
    /\ view_stores[_view_store] = {}
    /\ store_view(1)

\* Caches filled before, between and after two handshakes, and the
\* coordinator tasks of the handshakes.
NextClear ==
    \/ ClearHandshake
    \/ ClearGuildJoin
    \/ ClearEmojisUpdate
    \/ ClearMessageCreate
    \/ ClearStorePoll
    \/ AddVoiceClient
    \/ StoreView
    \/ AddGroupChannel
    \/ Start
    \/ Get
    \/ IdleTimeout
    \/ Cancelled

SpecClear == InitStore /\ [][NextClear]_vars

\* ------------------------------------- message references across handshakes

\* A sharded client with one shard, launched, the default message cache and
\* no chunking.
RebindConfig ==
    [chunk_guilds |-> FALSE, intents |-> [members |-> FALSE, presences |-> FALSE],
     member_cache_flags |-> [joined |-> FALSE], shard_ids |-> <<0>>,
     shards_launched |-> TRUE]

InitRebind == InitState /\ ConfigIs(RebindConfig)

\* The coordinator task of the handshakes has not run yet.
RebindReady ==
    /\ events.ready < MaxRebindHandshakes
    /\ sharded_parse_ready(<<1, MaxGuilds>>, shard_ids[1])

RebindGuildCreate ==
    /\ events.guild_create < MaxRebindGuildCreates
    /\ \E unavailable \in {"false", "absent"} :
          parse_guild_create([id |-> 1, unavailable |-> unavailable, chunked |-> TRUE,
                              large |-> FALSE])

\* The k-th MESSAGE_CREATE carries message id k: in a channel of guild 1 or
\* MaxGuilds, or in a private channel.
RebindMessageCreate ==
    /\ store_events.message_create < MaxRebindMessages
    /\ \E g \in {None, 1, MaxGuilds} :
          parse_message_create([id |-> store_events.message_create + 1, guild_id |-> g])

NextRebind ==
    \/ RebindReady
    \/ RebindGuildCreate
    \/ RebindMessageCreate

SpecRebind == InitRebind /\ [][NextRebind]_vars

\* ----------------------------------------------------------- construction

\* options.get(key, default) for an option given as << >> (absent) or <<v>>.
OptionGet(option, default) == IF option = << >> THEN default ELSE option[1]

\* Intents.default(): neither privileged intent.
IntentsDefault == [members |-> FALSE, presences |-> FALSE]

\* Lines 213-218: the intents used.
IntentsOf(opts) ==
    IF opts.intents.type = "Intents"
    THEN [members |-> opts.intents.members, presences |-> opts.intents.presences]
    ELSE IntentsDefault

\* Lines 225-227: `options.get("chunk_guilds_at_startup", intents.members)`
ChunkGuildsOf(opts) == OptionGet(opts.chunk_guilds_at_startup, IntentsOf(opts).members)

\* Lines 235-237: MemberCacheFlags.from_intents(intents) caches the joined
\* members exactly when the members intent is enabled.
CacheFlagsOf(opts) ==
    IF opts.member_cache_flags.type = "MemberCacheFlags"
    THEN [joined |-> opts.member_cache_flags.joined]
    ELSE [joined |-> IntentsOf(opts).members]

InitErrorAcceptsAll(opts) == ""

\* __init__, lines 186-246: the exception raised, "" for none, in the order
\* of the checks.  cache_flags._verify_intents rejects caching joined
\* members without the members intent.
InitError(opts) ==
    IF OptionGet(opts.guild_ready_timeout, DefaultGuildReadyTimeout) < 0 THEN "ValueError"
    ELSE IF opts.allowed_mentions \notin {"None", "AllowedMentions"} THEN "TypeError"
    ELSE IF opts.activity \notin {"None", "BaseActivity"} THEN "TypeError"
    ELSE IF opts.intents.type \notin {"None", "Intents"} THEN "TypeError"
    ELSE IF ~IntentsOf(opts).members /\ ChunkGuildsOf(opts) THEN "ValueError"
    ELSE IF opts.member_cache_flags.type \notin {"None", "MemberCacheFlags"} THEN "TypeError"
    ELSE IF /\ opts.member_cache_flags.type = "MemberCacheFlags"
            /\ opts.member_cache_flags.joined /\ ~IntentsOf(opts).members THEN "ValueError"
    ELSE ""

\* ConnectionState(**options): the attributes are set and clear() has
\* run, or the exception leaves the caller without an object.
__init__ ==
    /\ ~constructed /\ raised = {}
    /\ IF InitError(options) = ""
       THEN /\ constructed' = TRUE
            /\ max_messages' = MaxMessages(options)
            /\ guild_ready_timeout' = OptionGet(options.guild_ready_timeout,
                                                DefaultGuildReadyTimeout)
            /\ _intents' = IntentsOf(options)
            /\ _chunk_guilds' = ChunkGuildsOf(options)
            /\ member_cache_flags' = CacheFlagsOf(options)
            /\ UNCHANGED raised
       ELSE /\ raised' = {"__init__"}
            /\ UNCHANGED <<constructed, max_messages, guild_ready_timeout, _intents,
                           _chunk_guilds, member_cache_flags>>
    /\ UNCHANGED <<lruVars, entityVars, shard_ids, shards_launched, options, _messages, _users, _emojis,
                   _stickers, store_events, guildVars, chunkVars, readyVars>>

\* The option values of SpecInit: absent, of the right type and of a wrong
\* type.
InitOptions ==
    [ guild_ready_timeout : { << >>, <<0 - 1>>, <<0>>, <<DefaultGuildReadyTimeout + 1>> },
      allowed_mentions : {"None", "AllowedMentions", "str"},
      activity : {"None", "BaseActivity", "str"},
      intents : { [type |-> "None"], [type |-> "str"] }
                \cup { [type |-> "Intents", members |-> m, presences |-> p] :
                         m \in BOOLEAN, p \in BOOLEAN },
      chunk_guilds_at_startup : { << >>, <<TRUE>>, <<FALSE>> },
      member_cache_flags : { [type |-> "None"], [type |-> "str"] }
                           \cup { [type |-> "MemberCacheFlags", joined |-> j] :
                                    j \in BOOLEAN } ]

\* Before the constructor is called there are no attributes.
InitInit ==
    /\ InitState
    /\ options \in InitOptions
    /\ constructed = FALSE
    /\ max_messages = None
    /\ guild_ready_timeout = None
    /\ _chunk_guilds = FALSE
    /\ _intents = IntentsDefault
    /\ member_cache_flags = [joined |-> FALSE]
    /\ shard_ids = << >>
    /\ shards_launched = FALSE

NextInit == __init__

SpecInit == InitInit /\ [][NextInit]_vars

\* ------------------------------------------------------------------ claims

\* The notifications named `name` that coordinator task t published.
PublishedBy(log, t, name) ==
    { k \in DOMAIN log : log[k].by = t /\ log[k].name = name }

\* The positions of the "connect" notifications: one per handshake.
Connects == { k \in DOMAIN dispatched : dispatched[k].name = "connect" }

\* The "ready" notifications published after the handshake at position k
\* and before the next handshake.
ReadyAfter(k) ==
    { r \in DOMAIN dispatched :
        /\ dispatched[r].name = "ready"
        /\ r > k
        /\ \A c \in Connects : c > k => r < c }

\* C1: each handshake leads to "ready" being published exactly once: no
\* coordinator publishes "ready" or calls the "ready" handler more than
\* once, and no handshake is followed, before the next handshake, by more
\* than one "ready".
C1_ReadyOncePerHandshake ==
    /\ \A t \in DOMAIN tasks :
          /\ Cardinality(PublishedBy(dispatched, t, "ready")) <= 1
          /\ Cardinality(PublishedBy(dispatched, t, "call_handlers ready")) <= 1
    /\ \A k \in Connects : Cardinality(ReadyAfter(k)) <= 1

\* C2: once a later handshake has been processed, the coordinator task of
\* an earlier handshake publishes no "ready", no guild_available and no
\* guild_join, and consumes no announced guild.
C2_SupersededTaskIsSilent ==
    [][\A t \in DOMAIN tasks :
        t < Len(tasks)
        => /\ { k \in DOMAIN dispatched' : dispatched'[k].by = t }
                = { k \in DOMAIN dispatched : dispatched[k].by = t }
           /\ ~TaskGet(t)
    ]_vars

\* C8: after any sequence of _add_private_channel, _get_private_channel and
\* _remove_private_channel operations the private-channel store holds at
\* most 128 entries.
C8_StoreBounded == Len(_private_channels) <= MaxPrivateChannels

\* A full store from which the first channel that no operation touches
\* again (id 2) has been evicted.
C8_Witness ==
    /\ Len(_private_channels) = MaxPrivateChannels
    /\ 2 \notin Ids(_private_channels)

\* C9: when the store is at capacity and a channel with a new id is added,
\* exactly one entry is evicted and it is the entry least recently touched
\* (by insertion or by lookup); afterwards a lookup of the evicted id
\* returns absent and no by-recipient index entry refers to the evicted
\* channel.
C9_EvictsLeastRecentlyTouched ==
    [][\A c \in HotChannels :
        ( /\ _add_private_channel(c)
          /\ Len(_private_channels) = MaxPrivateChannels
          /\ c.id \notin Ids(_private_channels) )
        => LET gone == Ids(_private_channels) \ Ids(_private_channels')
               lrt == Head(touched)
               evicted == GetPrivateChannelValue(_private_channels, lrt)
           IN  /\ gone = {lrt}
               /\ GetPrivateChannelValue(_private_channels', lrt) = None
               /\ \A u \in DOMAIN _private_channels_by_user' :
                      _private_channels_by_user'[u] # evicted
    ]_vars

\* C10: adding a private channel whose id is already stored replaces the
\* stored value and marks that id most-recently-used: it becomes the last
\* of the present entries in the eviction order.
C10_ReAddMarksMostRecentlyUsed ==
    [][\A c \in HotChannels :
        ( /\ _add_private_channel(c)
          /\ c.id \in Ids(_private_channels) )
        => /\ GetPrivateChannelValue(_private_channels', c.id) = c
           /\ _private_channels'[Len(_private_channels')].id = c.id
    ]_vars

\* C11: a lookup of a stored id returns the stored channel and moves the id
\* to the end of the eviction order, keeping the order of the other
\* entries; a lookup of an id that is not stored returns None and leaves the
\* store, the by-recipient index and the recency history unchanged.
C11_LookupPromotes ==
    [][\A i \in HotIds :
        _get_private_channel(i)
        => IF i \in Ids(_private_channels)
           THEN /\ returned' = <<_private_channels[IndexOf(_private_channels, i)]>>
                /\ _private_channels'[Len(_private_channels')] = returned'[1]
                /\ SelectSeq(_private_channels', LAMBDA c : c.id # i)
                      = SelectSeq(_private_channels, LAMBDA c : c.id # i)
                /\ Len(_private_channels') = Len(_private_channels)
                /\ touched'[Len(touched')] = i
           ELSE /\ returned' = << >>
                /\ UNCHANGED <<_private_channels, _private_channels_by_user, touched>>
    ]_vars

\* The lookup of id 1 in the prefilled store has moved it behind the
\* others.
C11_Witness ==
    /\ returned = <<GroupChannel(1)>>
    /\ Len(_private_channels) = PrefillCount
    /\ _private_channels[1].id = 2
    /\ _private_channels[PrefillCount].id = 1

\* The capacity of the message cache: nothing is cached without one.
Capacity == IF max_messages = None THEN 0 ELSE max_messages

\* The notifications published by the step.
Published == SubSeq(dispatched', Len(dispatched) + 1, Len(dispatched'))

\* C12: after every event the message cache holds at most max_messages
\* messages (none when there is no cache), and a MESSAGE_CREATE, also one
\* that makes the full cache drop its oldest message, publishes "message"
\* for the new message and nothing else.
C12_MessageCacheBounded ==
    [][/\ Len(_messages') <= Capacity
       /\ \A g \in {None, 1} :
             LET data == [id |-> store_events.message_create + 1, guild_id |-> g]
             IN  parse_message_create(data)
                 => /\ Len(Published) = 1
                    /\ Published[1].name = "message"
                    /\ Published[1].args = <<NewMessage(data)>>
    ]_vars

\* Three messages arrived in a cache of two: the first was dropped, and
\* only the three "message" notifications were published.
C12_Witness ==
    /\ max_messages = MaxMessagesOption
    /\ Len(_messages) = MaxMessagesOption
    /\ _messages[1].id = 2
    /\ Len(dispatched) = 3
    /\ \A k \in DOMAIN dispatched : dispatched[k].name = "message"

\* The messages that arrived, in arrival order.
Arrived ==
    LET created == SelectSeq(dispatched, LAMBDA d : d.name = "message")
    IN  [ k \in DOMAIN created |-> created[k].args[1] ]

\* C13: after k MESSAGE_CREATE events, no deletion event and no handshake,
\* a message cache of capacity max_messages holds the last
\* min(k, max_messages) messages that arrived, in arrival order, and
\* _get_message returns None for the id of every older message.
C13_CacheHoldsTheLatest ==
    ( /\ max_messages # None
      /\ store_events.other = 0
      /\ events.ready = 0 )
    => LET k == store_events.message_create
           n == IF k < max_messages THEN k ELSE max_messages
       IN  /\ Len(Arrived) = k
           /\ _messages = SubSeq(Arrived, k - n + 1, k)
           /\ \A i \in 1..(k - n) : GetMessage(_messages, Arrived[i].id) = << >>
           /\ \A i \in (k - n + 1)..k : GetMessage(_messages, Arrived[i].id) = <<Arrived[i]>>

\* Three messages arrived, the second in a guild channel: the cache of two
\* holds the second and the third.
C13_Witness ==
    /\ store_events.other = 0
    /\ events.ready = 0
    /\ Len(_messages) = 2
    /\ _messages[1].id = 2 /\ _messages[1].guild = 1 /\ _messages[1].ref = _guilds[1]
    /\ _messages[2].id = 3 /\ _messages[2].guild = None

\* The notifications about guilds that the coordinator or the GUILD_CREATE
\* handler publishes.
GuildNotifications ==
    { k \in DOMAIN dispatched : dispatched[k].name \in {"guild_available", "guild_join"} }

C16_PublishedAfterCacheUpdate ==
    \A k \in DOMAIN dispatched :
        LET d == dispatched[k]
        IN  /\ ( d.name = "message" /\ max_messages # None )
               => d.args[1] \in Range(d.cache)
            /\ d.name \in {"message_delete", "bulk_message_delete"}
               => \A i \in DOMAIN d.args : d.args[i] \notin Range(d.cache)

\* C20: a bulk delete removes from the message cache the cached messages
\* whose ids are listed and keeps the others in their order; the raw
\* notification carries the removed messages, and "bulk_message_delete" is
\* published, with the same messages, exactly when there are any.
C20_BulkDeleteRemovesTheListed ==
    [][\A message_ids \in { {1, 3}, {2, MaxMessageCreates + 1} } :
        parse_message_delete_bulk(message_ids)
        => LET removed == SelectSeq(_messages, LAMBDA m : m.id \in message_ids)
           IN  /\ _messages' = SelectSeq(_messages, LAMBDA m : m.id \notin message_ids)
               /\ Published[1].name = "raw_bulk_message_delete"
               /\ Published[1].args = removed
               /\ IF removed = << >>
                  THEN Len(Published) = 1
                  ELSE /\ Len(Published) = 2
                       /\ Published[2].name = "bulk_message_delete"
                       /\ Published[2].args = removed
    ]_vars

\* A bulk delete listing ids 1 and 3 has removed both from a cache that
\* held 1, 2, 3: message 2 is left.
C20_Witness ==
    /\ dispatched # << >>
    /\ dispatched[Len(dispatched)].name = "bulk_message_delete"
    /\ Len(dispatched[Len(dispatched)].args) = 2
    /\ _messages # << >>
    /\ _messages[1].id = 2

\* The members of the pages of a history, in arrival order.
RECURSIVE Flatten(_)
Flatten(pages) == IF pages = << >> THEN << >> ELSE Head(pages) \o Flatten(Tail(pages))

\* The request objects a page (guild_id, nonce) is not addressed to.
NotAddressed(guild_id, nonce) ==
    { n \in DOMAIN chunk_objs :
        chunk_objs[n].guild_id # guild_id \/ chunk_objs[n].nonce # nonce }

\* C3: a member-chunk page leaves alone every request whose guild id or
\* nonce differs from the page's: its buffer, its waiters, the futures of
\* its waiters and its registration are unchanged, also when the guild id
\* is the same; and a page addressed to no registered request changes
\* neither the requests, the registry, the futures nor the member cache.
C3_PageReachesOnlyItsRequest ==
    [][\A guild_id \in Guilds, nonce \in PageNonces, complete \in BOOLEAN :
        parse_guild_members_chunk(guild_id, nonce, ChunkPage(events.chunk), complete)
        => LET other == NotAddressed(guild_id, nonce)
           IN  /\ \A n \in other :
                     /\ chunk_objs'[n] = chunk_objs[n]
                     /\ \A f \in Range(chunk_objs[n].waiters) : futures'[f] = futures[f]
               /\ \A k \in DOMAIN _chunk_requests :
                     _chunk_requests[k] \in other
                     => k \in DOMAIN _chunk_requests'
                        /\ _chunk_requests'[k] = _chunk_requests[k]
               /\ Range(_chunk_requests) \subseteq other
                  => UNCHANGED <<chunk_objs, _chunk_requests, futures, guild_objs>>
    ]_vars

\* Two registered requests for the same guild: the later one has buffered a
\* page, the earlier one, registered throughout, has buffered nothing.
C3_Witness ==
    \E n1, n2 \in Range(_chunk_requests) :
        /\ n2 < n1
        /\ chunk_objs[n1].guild_id = chunk_objs[n2].guild_id
        /\ chunk_objs[n1].buffer # << >>
        /\ chunk_objs[n2].buffer = << >>
        /\ chunk_objs[n2].nonce \in Range(ws_sent)

\* C4: the final page of a registered request resolves each of its waiters
\* that is not done with the members of all the pages delivered for the
\* request, in arrival order, leaves the done waiters as they are and
\* removes the request from the registry; a page that is not final changes
\* no future and leaves the request registered.
C4_FinalPageResolvesWaiters ==
    [][\A guild_id \in Guilds, nonce \in PageNonces, complete \in BOOLEAN :
        parse_guild_members_chunk(guild_id, nonce, ChunkPage(events.chunk), complete)
        => \A k \in DOMAIN _chunk_requests :
              LET n == _chunk_requests[k]
              IN  n \notin NotAddressed(guild_id, nonce)
                  => IF complete
                     THEN /\ k \notin DOMAIN _chunk_requests'
                          /\ \A f \in Range(chunk_objs[n].waiters) :
                                IF FutureDone(futures[f])
                                THEN futures'[f] = futures[f]
                                ELSE /\ futures'[f].state = "done"
                                     /\ futures'[f].result = Flatten(received'[n])
                     ELSE /\ k \in DOMAIN _chunk_requests'
                          /\ _chunk_requests'[k] = n
                          /\ futures' = futures
    ]_vars

\* A waiter resolved with the members of two pages, its request removed.
C4_Witness ==
    \E n \in DOMAIN chunk_objs :
        /\ n \notin Range(_chunk_requests)
        /\ Len(received[n]) = 2
        /\ \E f \in DOMAIN futures :
              /\ futures[f].state = "done"
              /\ futures[f].result = Flatten(received[n])

\* C5: once a bounded wait on a chunk request has timed out (the 30 s wait
\* of query_members, the 60 s wait of _chunk_and_dispatch), the request is
\* not in the chunk-request registry.
C5_TimedOutRequestRemoved ==
    \A c \in DOMAIN calls :
        calls[c].outcome = "timeout" => calls[c].request \notin Range(_chunk_requests)

\* The request_chunks frames written for request n.
Sends(n) == { i \in DOMAIN ws_sent : ws_sent[i] = n }

\* The callers between the registration of request n and the write of its
\* frame.
InChunker(n) ==
    \/ \E c \in DOMAIN calls : calls[c].pc = "chunker" /\ calls[c].request = n
    \/ \E t \in DOMAIN tasks : tasks[t].pc = "chunker" /\ tasks[t].request = n

\* C6: the whole-guild request registered for a guild id is a request for
\* that guild; while it is registered exactly one request_chunks frame is
\* written for it (by the caller that registered it, once it is past
\* self.chunker); every chunk_guild caller whose wait is pending waits on
\* the registered request; and a query_members request is registered under
\* its own nonce, apart from the whole-guild request.
C6_OneWholeGuildRequestOneSend ==
    /\ \A k \in DOMAIN _chunk_requests :
          k[1] = "guild"
          => LET n == _chunk_requests[k]
             IN  /\ chunk_objs[n].guild_id = k[2]
                 /\ Cardinality(Sends(n)) <= 1
                 /\ ~InChunker(n) => Cardinality(Sends(n)) = 1
    /\ \A c \in DOMAIN calls :
          IF calls[c].kind = "chunk_and_dispatch"
          THEN ( /\ calls[c].pc = "wait"
                 /\ ~FutureDone(futures[calls[c].future]) )
               => LET key == GuildKey(guild_objs[calls[c].guild].id)
                  IN  /\ key \in DOMAIN _chunk_requests
                      /\ _chunk_requests[key] = calls[c].request
                      /\ calls[c].future \in Range(chunk_objs[calls[c].request].waiters)
          ELSE \A k \in DOMAIN _chunk_requests :
                  _chunk_requests[k] = calls[c].request
                  => k = NonceKey(chunk_objs[calls[c].request].nonce)

\* C7: a call that has left request.wait(), by a result or by the
\* cancellation that a timeout delivers, has its future in no waiter list,
\* and has it in its request's list while it waits; a future created by
\* get_future is never removed from its request's waiter list.
C7_WaitRemovesItsWaiter ==
    [][/\ \A c \in DOMAIN calls' :
             /\ ( calls'[c].pc = "done" /\ calls'[c].future # None )
                => \A n \in DOMAIN chunk_objs' :
                      calls'[c].future \notin Range(chunk_objs'[n].waiters)
             /\ calls'[c].pc = "wait"
                => calls'[c].future \in Range(chunk_objs'[calls'[c].request].waiters)
       /\ \A n \in DOMAIN chunk_objs :
             \A f \in Range(chunk_objs[n].waiters) :
                futures[f].via = "get_future" => f \in Range(chunk_objs'[n].waiters)
    ]_vars

\* One wait has returned a result, another has timed out, and a future the
\* coordinator gave up on after 5 s is still among the waiters.
C7_Witness ==
    /\ \E c \in DOMAIN calls : calls[c].outcome = "returned"
    /\ \E c \in DOMAIN calls : calls[c].outcome = "timeout" /\ calls[c].future # None
    /\ \E n \in DOMAIN chunk_objs :
          \E f \in Range(chunk_objs[n].waiters) :
             futures[f].via = "get_future" /\ futures[f].state = "cancelled"

\* A step that is the handling of a guild-scoped event whose guild id is not
\* in the guild map.
UnknownGuildEvent ==
    \E g \in (Guilds \cup {UnknownGuild}) \ DOMAIN _guilds :
        \/ \E unavailable \in BOOLEAN : parse_guild_delete(g, unavailable)
        \/ \E emojis \in EntityLists(g) : parse_guild_emojis_update(g, emojis)
        \/ parse_guild_stickers_update(g, <<EntityId(g, 1)>>)
        \/ parse_guild_member_add(g, OtherUser)
        \/ parse_guild_member_remove(g, OtherUser)
        \/ parse_presence_update(g, OtherUser, "online")

\* C17: a guild-scoped event whose guild id is not in the guild map leaves
\* the users, the guilds with their members and member counts, the private
\* channels, the messages, the emojis and the stickers unchanged, and
\* publishes no notification.
C17_UnknownGuildEventDropped ==
    [][UnknownGuildEvent
       => UNCHANGED <<_users, guildVars, _private_channels, _private_channels_by_user,
                      _messages, _emojis, _stickers, dispatched>>
    ]_vars

\* C18: no handler ends with an exception because its event refers to
\* something that is not cached.
C18_NoHandlerRaises == raised = {}

\* C19: a GUILD_DELETE that removes a cached guild takes the guild out of
\* the guild map and its emojis and stickers out of the global maps, so
\* that no global entry is left that belongs to the guild; every other
\* guild, and every emoji and sticker of another guild, stays as it was.
C19_RemovalCascades ==
    [][\A g \in DOMAIN _guilds :
          parse_guild_delete(g, FALSE)
          => LET guild == guild_objs[_guilds[g]]
             IN  /\ DOMAIN _guilds' = DOMAIN _guilds \ {g}
                 /\ \A h \in DOMAIN _guilds' : _guilds'[h] = _guilds[h]
                 /\ guild_objs' = guild_objs
                 /\ DOMAIN _emojis' = DOMAIN _emojis \ Range(guild.emojis)
                 /\ DOMAIN _stickers' = DOMAIN _stickers \ Range(guild.stickers)
                 /\ \A e \in DOMAIN _emojis' : _emojis'[e] = _emojis[e] /\ _emojis'[e] # g
                 /\ \A k \in DOMAIN _stickers' :
                       _stickers'[k] = _stickers[k] /\ _stickers'[k] # g
                 /\ \A e \in DOMAIN _emojis : _emojis[e] # g => e \in DOMAIN _emojis'
                 /\ \A k \in DOMAIN _stickers : _stickers[k] # g => k \in DOMAIN _stickers'
    ]_vars

\* Guild 1 had its emojis set and was then removed, while guild 2 holds an
\* emoji: the global map is left with the emojis of guild 2 only.
C19_Witness ==
    /\ 1 \notin DOMAIN _guilds
    /\ 2 \in DOMAIN _guilds
    /\ \E i, j \in DOMAIN dispatched :
          /\ i < j
          /\ dispatched[i].name = "guild_emojis_update" /\ dispatched[i].guild = 1
          /\ dispatched[j].name = "guild_remove" /\ dispatched[j].guild = 1
    /\ EntityId(2, 1) \in DOMAIN _emojis
    /\ \A e \in DOMAIN _emojis : _emojis[e] = 2
    /\ guild_objs[_guilds[2]].emojis # << >>

\* C14: the guild announced with chunked = true never has a chunk request
\* created, registered or sent for it, and no chunk_guild call is started
\* for it: by the coordinator of a ConnectionState, by the sharded
\* coordinator, and by GUILD_CREATE outside a readiness cycle, whatever
\* chunk_guilds_at_startup, the presences intent and guild.large are.
C14_ChunkedGuildNeverRequested ==
    /\ \A n \in DOMAIN chunk_objs : chunk_objs[n].guild_id # ChunkedGuild
    /\ \A k \in DOMAIN _chunk_requests :
          chunk_objs[_chunk_requests[k]].guild_id # ChunkedGuild
    /\ \A i \in DOMAIN ws_sent : chunk_objs[ws_sent[i]].guild_id # ChunkedGuild
    /\ \A c \in DOMAIN calls : guild_objs[calls[c].guild].id # ChunkedGuild

\* With chunking at startup enabled and without the presences intent, the
\* sharded coordinator has published the chunked guild while a request for
\* the other guild has been sent.
C14_Witness ==
    /\ shard_ids # << >>
    /\ _chunk_guilds /\ ~_intents.presences
    /\ \E i \in DOMAIN dispatched :
          /\ dispatched[i].name = "guild_available"
          /\ dispatched[i].guild = ChunkedGuild
          /\ dispatched[i].by # None
    /\ \E i \in DOMAIN ws_sent : chunk_objs[ws_sent[i]].guild_id = MaxGuilds

\* C28: an engine constructed with max_messages = 0 never retains a
\* message, and one constructed with a negative max_messages has the
\* default capacity.
C28_ZeroDisablesCaching ==
    /\ options.max_messages = <<0>> => _messages = << >>
    /\ ( options.max_messages # << >> /\ options.max_messages[1] < 0 )
       => max_messages = DefaultMaxMessages

\* The options the claim calls malformed.
Malformed ==
    \/ options.guild_ready_timeout # << >> /\ options.guild_ready_timeout[1] < 0
    \/ /\ options.chunk_guilds_at_startup = <<TRUE>>
       /\ ~( options.intents.type = "Intents" /\ options.intents.members )
    \/ options.allowed_mentions \notin {"None", "AllowedMentions"}
    \/ options.intents.type \notin {"None", "Intents"}
    \/ options.member_cache_flags.type \notin {"None", "MemberCacheFlags"}

\* C29: a constructor call with malformed options raises and sets no
\* attribute, and every constructed engine has a guild_ready_timeout that
\* is not negative and chunks guilds at startup only with the members
\* intent.
C29_MalformedOptionsRejected ==
    /\ [](constructed => /\ guild_ready_timeout >= 0
                         /\ (_chunk_guilds => _intents.members))
    /\ [][( __init__ /\ Malformed )
          => /\ raised' = {"__init__"}
             /\ UNCHANGED <<lruVars, configVars, entityVars, max_messages, _messages, _users, _emojis,
                            _stickers, store_events, guildVars, chunkVars, readyVars>>
      ]_vars

\* The call with a negative guild_ready_timeout has raised.
C29_Witness ==
    /\ options.guild_ready_timeout = <<0 - 1>>
    /\ raised = {"__init__"}
    /\ ~constructed

\* C21: with joined members cached, a GUILD_MEMBER_ADD for user u in a
\* cached guild makes the member retrievable from the guild, and a
\* PRESENCE_UPDATE for user v in guild g changes nothing in the guild
\* store but member (g, v).
C21_PresenceTouchesOneMember ==
    [][/\ \A user \in StoreUsers :
             ( member_cache_flags.joined /\ 1 \in DOMAIN _guilds
               /\ parse_guild_member_add(1, user) )
             => LET members == guild_objs'[_guilds'[1]].members
                IN  user.id \in DOMAIN members /\ members[user.id].id = user.id
       /\ \A g \in DOMAIN _guilds : \A v \in StoreUsers :
             parse_presence_update(g, v, "online")
             => /\ _guilds' = _guilds
                /\ DOMAIN guild_objs' = DOMAIN guild_objs
                /\ \A o \in DOMAIN guild_objs :
                      /\ o # _guilds[g] => guild_objs'[o] = guild_objs[o]
                      /\ DOMAIN guild_objs'[o].members = DOMAIN guild_objs[o].members
                      /\ \A u \in DOMAIN guild_objs[o].members :
                            u # v.id => guild_objs'[o].members[u] = guild_objs[o].members[u]
    ]_vars

\* Users 2 and 3 have joined guild 1 and a presence of user 3 has been
\* published: member 2 is as it was added.
C21_Witness ==
    /\ 1 \in DOMAIN _guilds
    /\ DOMAIN guild_objs[_guilds[1]].members = {2, 3}
    /\ guild_objs[_guilds[1]].members[3].status = "online"
    /\ guild_objs[_guilds[1]].members[2] = [id |-> 2, joined_at |-> 1, status |-> "offline"]

\* The chunk_guild tasks the sharded coordinator has started that have not
\* returned.
InFlight == { c \in DOMAIN calls : calls[c].kind = "chunk_guild" /\ calls[c].pc # "done" }

\* C22: the sharded coordinator never has more than 2 x shard count
\* whole-guild backfills started and unresolved.
C22_WindowBounded == shard_ids # << >> => Cardinality(InFlight) <= MaxConcurrency

\* The notifications of a step that a coordinator task published.
PublishedByTask == SelectSeq(Published, LAMBDA d : d.by # None)

\* C23: while shards_launched is not set, no coordinator task moves: no
\* queue loses a guild, no chunk_guild task is started and no coordinator
\* publishes anything.
C23_NothingBeforeLaunch ==
    [][~shards_launched
       => /\ \A t \in DOMAIN tasks : tasks'[t] = tasks[t]
          /\ \A q \in DOMAIN queues : Len(queues'[q]) >= Len(queues[q])
          /\ calls' = calls
          /\ PublishedByTask = << >>
    ]_vars

\* A guild is queued for a coordinator task that waits for the launch of
\* the shards.
C23_Witness ==
    /\ ~shards_launched
    /\ _ready_task # None
    /\ tasks[_ready_task].pc = "launch"
    /\ queues[_ready_state] # << >>

\* What task t published, in order.
LogOf(t) == SelectSeq(dispatched, LAMBDA d : d.by = t)

IsGuildNotification(d) == d.name \in {"guild_available", "guild_join"}

\* C24: a sharded coordinator task that has ended has published, for each
\* shard that owns a collected guild, one shard_ready: after one
\* notification for each collected guild of the shard and before every
\* notification of a later shard; none for another shard; and one "ready",
\* after every shard_ready.
C24_ShardReadyPerGroup ==
    \A t \in DOMAIN tasks :
        ( tasks[t].pc = "done" /\ "bucket" \in DOMAIN tasks[t] )
        => LET log == LogOf(t)
               shard_readies == { k \in DOMAIN log : log[k].name = "shard_ready" }
               readies == { k \in DOMAIN log : log[k].name = "ready" }
               notes(shard) == { k \in DOMAIN log : /\ IsGuildNotification(log[k])
                                                    /\ ShardOf(log[k].guild) = shard }
               collected(shard) ==
                   { k \in DOMAIN tasks[t].states :
                       ShardOf(guild_objs[tasks[t].states[k].guild].id) = shard }
           IN  /\ \A shard \in GroupIds(tasks[t]) :
                     /\ Cardinality({ k \in shard_readies : log[k].shard = shard }) = 1
                     /\ Cardinality(notes(shard)) = Cardinality(collected(shard))
                     /\ \A r \in shard_readies :
                           log[r].shard = shard
                           => /\ \A k \in notes(shard) : k < r
                              /\ \A later \in GroupIds(tasks[t]) :
                                    later > shard => \A k \in notes(later) : r < k
               /\ \A r \in shard_readies : log[r].shard \in GroupIds(tasks[t])
               /\ Cardinality(readies) = 1
               /\ \A k \in readies : \A r \in shard_readies : r < k

\* A coordinator task of a client with two shards has ended after it
\* collected a guild of each shard.
C24_Witness ==
    \E t \in DOMAIN tasks :
        /\ tasks[t].pc = "done" /\ "bucket" \in DOMAIN tasks[t]
        /\ Cardinality(GroupIds(tasks[t])) = 2
        /\ Len(tasks[t].states) = MaxShardGuildCreates

\* The sharded coordinator tasks that have not ended.
RunningShardTasks ==
    { t \in DOMAIN tasks : "bucket" \in DOMAIN tasks[t] /\ Running(t) }

\* C25: at most one sharded coordinator task exists at a time, and a
\* sharded handshake that arrives while one is running leaves that task as
\* it is, starts no other, and leaves the caches as they are, apart from
\* the guilds and the user its payload brings.
C25_OneCoordinator ==
    /\ [](Cardinality(RunningShardTasks) <= 1)
    /\ [][\A k \in DOMAIN shard_ids :
             ( RunningShardTasks # {}
               /\ sharded_parse_ready(ShardGuildList(shard_ids[k]), shard_ids[k]) )
             => /\ tasks' = tasks
                /\ _ready_task' = _ready_task
                /\ _ready_state' = _ready_state /\ queues' = queues
                /\ DOMAIN _guilds \subseteq DOMAIN _guilds'
                /\ _users \subseteq _users'
                /\ Len(_messages') = Len(_messages)
                /\ UNCHANGED <<lruVars, _emojis, _stickers, chunkVars, calls>>
      ]_vars

\* The second handshake has arrived while the coordinator task of the
\* first was collecting.
C25_Witness ==
    /\ events.ready = MaxShardHandshakes
    /\ Len(tasks) = 1
    /\ tasks[1].pc = "shard_get"
    /\ tasks[1].states # << >>

\* C26: when the sharded handshake handler returns, every cached message
\* that references a guild whose id is in the guild map references the
\* Guild object the map holds for that id.
C26_MessagesRebound ==
    [][( \E k \in DOMAIN shard_ids :
            \E guild_ids \in { <<1, MaxGuilds>>, ShardGuildList(shard_ids[k]) } :
                sharded_parse_ready(guild_ids, shard_ids[k]) )
       => \A k \in DOMAIN _messages' :
             ( _messages'[k].ref # None /\ _messages'[k].guild \in DOMAIN _guilds' )
             => _messages'[k].ref = _guilds'[_messages'[k].guild]
    ]_vars

\* A cached message references the Guild object of the guild map, which is
\* not the object it was created with.
C26_Witness ==
    \E i \in DOMAIN dispatched : \E k \in DOMAIN _messages :
        /\ dispatched[i].name = "message"
        /\ dispatched[i].args[1].id = _messages[k].id
        /\ dispatched[i].args[1].ref # None
        /\ _messages[k].ref # dispatched[i].args[1].ref
        /\ _messages[k].ref = _guilds[_messages[k].guild]

\* C27: a query_members call whose wait times out ends with the timeout
\* raised to its caller and publishes nothing; a _chunk_and_dispatch call
\* whose chunk_guild times out ends having published exactly one
\* guild_available or guild_join for its guild.
C27_TimeoutOutcomes ==
    [][\A c \in DOMAIN calls :
          CallTimeout(c) =>
             /\ calls'[c].pc = "done"
             /\ calls[c].kind = "query_members" =>
                   /\ calls'[c].outcome = "timeout"
                   /\ dispatched' = dispatched
             /\ calls[c].kind = "chunk_and_dispatch" =>
                   /\ Len(dispatched') = Len(dispatched) + 1
                   /\ SubSeq(dispatched', 1, Len(dispatched)) = dispatched
                   /\ dispatched'[Len(dispatched')].name =
                          AvailabilityEvent(calls[c].unavailable)
                   /\ dispatched'[Len(dispatched')].guild = guild_objs[calls[c].guild].id
    ]_vars

\* A query and a whole-guild backfill have both timed out, and the guild of
\* the backfill has been announced.
C27_Witness ==
    /\ \E c \in DOMAIN calls :
          calls[c].kind = "query_members" /\ calls[c].outcome = "timeout"
    /\ \E c \in DOMAIN calls :
          /\ calls[c].kind = "chunk_and_dispatch" /\ calls[c].outcome = "timeout"
          /\ \E i \in DOMAIN dispatched :
                /\ dispatched[i].name = AvailabilityEvent(calls[c].unavailable)
                /\ dispatched[i].guild = guild_objs[calls[c].guild].id

\* The guild_available and guild_join notifications published so far.
Announcements ==
    SelectSeq(dispatched, LAMBDA d : d.name \in {"guild_available", "guild_join"})

\* C30: every GUILD_CREATE whose unavailable flag is not true is eventually
\* followed by exactly one guild_available or guild_join for its guild:
\* from some point on there are as many announcements as there were such
\* events (SpecChunkFair has one handshake, and every GUILD_CREATE of it
\* is for guild 1 and has no unavailable flag).
C30_EveryGuildCreateAnnounced ==
    <>[](Len(Announcements) = events.guild_create)

\* The notifications task t has published, by name and guild.
TaskLog(t) ==
    LET own == SelectSeq(dispatched, LAMBDA d : d.by = t /\ d.name # "call_handlers ready")
    IN  [ k \in DOMAIN own |-> [name |-> own[k].name, guild |-> own[k].guild] ]

\* What the drain loop owes for the k-th remembered guild of task t.
OwedTo(t, k) ==
    LET guild == guild_objs[tasks[t].states[k].guild]
    IN  [name |-> AvailabilityEvent(guild.unavailable), guild |-> guild.id]

\* C31: in the draining phase of the single-connection coordinator (every
\* guild of SpecDrain has a pending backfill) the task has published one
\* guild_available or guild_join for each remembered guild it is past, in
\* the order the guilds were remembered, whether the wait resolved or timed
\* out; before draining it has published nothing; and "ready" comes once,
\* after the notification of every remembered guild.
C31_DrainPublishesInOrder ==
    \A t \in DOMAIN tasks :
        LET task == tasks[t]
            owed == [ k \in 1..(task.i - 1) |-> OwedTo(t, k) ]
        IN  /\ task.pc \in {"start", "get", "chunker"} => TaskLog(t) = << >>
            /\ task.pc = "drain" => TaskLog(t) = owed
            /\ task.pc = "done" =>
                  /\ task.i = Len(task.states) + 1
                  /\ TaskLog(t) = Append(owed, [name |-> "ready", guild |-> None])

\* The task has finished after draining two guilds, guild 1 and then
\* MaxGuilds: the wait for the first resolved, the wait for the second
\* timed out.
C31_Witness ==
    \E t \in DOMAIN tasks :
        /\ tasks[t].pc = "done"
        /\ Len(tasks[t].states) = 2
        /\ guild_objs[tasks[t].states[1].guild].id = 1
        /\ guild_objs[tasks[t].states[2].guild].id = MaxGuilds
        /\ futures[tasks[t].states[1].future].state = "done"
        /\ futures[tasks[t].states[2].future].state = "cancelled"

\* The guild the queue of task t hands out next.
NextGuild(t) == guild_objs[Head(queues[tasks[t].queue])]

\* C32: when the coordinator takes a guild that needs a backfill and that it
\* has not remembered before in this cycle, it registers a request of its
\* own and goes on to send it: it never waits on a request that was
\* registered before the cycle.
C32_CoordinatorSendsItsOwnRequest ==
    [][\A t \in DOMAIN tasks :
          ( /\ TaskGet(t)
            /\ _guild_needs_chunking(NextGuild(t))
            /\ \A k \in DOMAIN tasks[t].states :
                  guild_objs[tasks[t].states[k].guild].id # NextGuild(t).id )
          => /\ tasks'[t].pc = "chunker"
             /\ ChunkGuildRequest(_chunk_requests, NextGuild(t).id) = None
    ]_vars

\* The registered requests a page for (guild_id, nonce) is matched to.
MatchedBy(guild_id, nonce) ==
    { _chunk_requests[k] : k \in { x \in DOMAIN _chunk_requests :
          Matches(chunk_objs[_chunk_requests[x]], guild_id, nonce) } }

\* C33: the final page of a request resolves every waiter that is still
\* pending with the full buffer, leaves a cancelled waiter as it is, raises
\* nothing and removes the request from the registry.
C33_FinalPageSkipsCancelledWaiters ==
    [][\A guild_id \in Guilds, nonce \in PageNonces :
          parse_guild_members_chunk(guild_id, nonce, ChunkPage(events.chunk), TRUE)
          => /\ raised' = raised
             /\ \A n \in MatchedBy(guild_id, nonce) :
                   /\ n \notin Range(_chunk_requests')
                   /\ chunk_objs'[n].buffer = chunk_objs[n].buffer \o ChunkPage(events.chunk)
                   /\ \A k \in DOMAIN chunk_objs[n].waiters :
                         LET f == chunk_objs[n].waiters[k]
                         IN  IF futures[f].state = "pending"
                             THEN /\ futures'[f].state = "done"
                                  /\ futures'[f].result = chunk_objs'[n].buffer
                             ELSE futures'[f] = futures[f]
    ]_vars

\* A request that is no longer registered has a waiter that the drain
\* timeout cancelled and, after it, a waiter resolved with the buffer.
C33_Witness ==
    \E n \in DOMAIN chunk_objs :
        /\ n \notin Range(_chunk_requests)
        /\ \E j, k \in DOMAIN chunk_objs[n].waiters :
              /\ j < k
              /\ futures[chunk_objs[n].waiters[j]].state = "cancelled"
              /\ futures[chunk_objs[n].waiters[j]].via = "get_future"
              /\ futures[chunk_objs[n].waiters[k]].state = "done"
              /\ futures[chunk_objs[n].waiters[k]].result = chunk_objs[n].buffer
              /\ chunk_objs[n].buffer # << >>

\* The member map of guild 1 in a guild map and its objects, << >> when the
\* guild is not stored.
MembersOf(gmap, gobjs) == IF 1 \in DOMAIN gmap THEN gobjs[gmap[1]].members ELSE << >>

\* C34: a page for a request is appended to the request's buffer; with
\* caching on and the guild stored, a member of the page is put into the
\* guild's member map exactly when no member with its id is cached or the
\* cached one has no joined timestamp, and no other entry changes; with
\* caching off or the guild not stored, the member map is unchanged.
C34_PageMergesMembers ==
    [][\A nonce \in Range(ws_sent), page \in MemberPages, complete \in BOOLEAN :
          parse_guild_members_chunk(1, nonce, page, complete)
          => \A n \in MatchedBy(1, nonce) :
                LET old == MembersOf(_guilds, guild_objs)
                    new == MembersOf(_guilds', guild_objs')
                IN  /\ chunk_objs'[n].buffer = chunk_objs[n].buffer \o page
                    /\ _guilds' = _guilds
                    /\ IF chunk_objs[n].cache /\ 1 \in DOMAIN _guilds
                       THEN /\ \A k \in DOMAIN page :
                                  IF \/ page[k].id \notin DOMAIN old
                                     \/ old[page[k].id].joined_at = None
                                  THEN new[page[k].id] = page[k]
                                  ELSE new[page[k].id] = old[page[k].id]
                            /\ \A u \in DOMAIN old \ { page[k].id : k \in DOMAIN page } :
                                  new[u] = old[u]
                            /\ DOMAIN new = DOMAIN old \cup { page[k].id : k \in DOMAIN page }
                       ELSE guild_objs' = guild_objs
    ]_vars

\* Member 1 was cached without a joined timestamp, a page replaced it by a
\* record that has one, and a later page of a caching request that carried
\* another record for member 1 did not replace it.
C34_Witness ==
    /\ 1 \in DOMAIN _guilds
    /\ \E n \in DOMAIN chunk_objs :
          /\ chunk_objs[n].cache
          /\ chunk_objs[n].buffer = <<Member(1, None), Member(1, 1), Member(1, 2)>>
          /\ MembersOf(_guilds, guild_objs) = Put(<< >>, 1, Member(1, 1))

\* The recipients whose indexed channel is stored, as indexed, in a store.
IndexedAndStored(store, index) ==
    { u \in DOMAIN index :
        \E i \in DOMAIN store : store[i] = index[u] }

\* C35: no addition, eviction or removal takes away the by-recipient entry
\* of a channel that is still stored afterwards: a recipient whose indexed
\* channel stays in the store stays in the index.
C35_IndexKeepsStoredChannels ==
    [][\A u \in IndexedAndStored(_private_channels', _private_channels_by_user) :
          u \in DOMAIN _private_channels_by_user'
    ]_vars

\* The positions of the messages of a cache that are not of guild g.
NotOf(messages, g) == { k \in DOMAIN messages : messages[k].guild # g }

\* C36: a GUILD_DELETE for a cached guild g that is not flagged unavailable
\* leaves in the message cache the messages that were there and are not of
\* g, in their order, and the capacity as it was; one flagged unavailable
\* marks g unavailable, publishes guild_unavailable and leaves the guild
\* map, the message cache and the emoji and sticker maps as they were.
C36_GuildDeleteFrame ==
    [][\A g \in DOMAIN _guilds, unavailable \in BOOLEAN :
          parse_guild_delete(g, unavailable)
          => /\ max_messages' = max_messages
             /\ IF unavailable
                THEN /\ guild_objs' = [guild_objs EXCEPT ![_guilds[g]].unavailable = "true"]
                     /\ dispatched' = Dispatch(dispatched, "guild_unavailable", g, None)
                     /\ UNCHANGED <<_guilds, _messages, _emojis, _stickers>>
                ELSE /\ Len(_messages') = Cardinality(NotOf(_messages, g))
                     /\ \A k \in DOMAIN _messages' :
                           \E i \in NotOf(_messages, g) :
                               /\ _messages'[k] = _messages[i]
                               /\ Cardinality({ j \in NotOf(_messages, g) : j < i }) = k - 1
    ]_vars

\* Guild 1 was flagged unavailable and then removed; of the three cached
\* messages the second, a message of guild 1, is gone and the first and the
\* third are left in their order.
C36_Witness ==
    /\ \E i, j \in DOMAIN dispatched :
          /\ i < j
          /\ dispatched[i].name = "guild_unavailable" /\ dispatched[i].guild = 1
          /\ dispatched[j].name = "guild_remove" /\ dispatched[j].guild = 1
          /\ \E k \in DOMAIN dispatched :
                /\ k < j
                /\ dispatched[k].name = "message"
                /\ dispatched[k].args[1].id = 2
                /\ dispatched[k].args[1].guild = 1
    /\ Len(_messages) = 2
    /\ _messages[1].id = 1 /\ _messages[1].guild = MaxGuilds
    /\ _messages[2].id = 3 /\ _messages[2].guild = None

\* C37: an update event on a cached entity leaves the object stored under
\* the entity's id in place: after GUILD_UPDATE the guild map holds the
\* Guild object it held, and after GUILD_SCHEDULED_EVENT_UPDATE for a cached
\* event the guild holds the ScheduledEvent object it held.
C37_UpdatesMutateInPlace ==
    [][/\ \A large \in BOOLEAN :
             parse_guild_update([id |-> 1, chunked |-> TRUE, large |-> large])
             => _guilds' = _guilds
       /\ \A data \in EventPayloads :
             ( /\ parse_guild_scheduled_event_update(1, data)
               /\ 1 \in DOMAIN _guilds
               /\ GetScheduledEvent(_guilds[1], data.id) # None )
             => _scheduled_events' = _scheduled_events
    ]_vars

\* C38: a scheduled-event user-remove event for a cached member and a cached
\* event decreases the event's subscriber count by one.
C38_UserRemoveDecrements ==
    [][\A user \in StoreUsers :
          ( /\ parse_guild_scheduled_event_user_remove(1, user.id, 1)
            /\ 1 \in DOMAIN _guilds
            /\ user.id \in DOMAIN guild_objs[_guilds[1]].members
            /\ GetScheduledEvent(_guilds[1], 1) # None )
          => LET event == GetScheduledEvent(_guilds[1], 1)
             IN  event_objs'[event].subscriber_count = event_objs[event].subscriber_count - 1
    ]_vars

\* C39: under any sequence of vote events no answer counter of a stored
\* poll is negative.
C39_CountersNeverNegative ==
    \A message_id \in DOMAIN _polls :
        _polls[message_id].results # << >>
        => \A answer_id \in DOMAIN _polls[message_id].results[1] :
              _polls[message_id].results[1][answer_id] >= 0

\* C40: when the single-connection handshake handler returns, the guild map
\* holds the guilds of the handshake's guild list and no other, the emoji,
\* sticker, poll, private-channel, voice-client and message caches are
\* empty, the user map holds at most the client's own user, the view
\* registry is the one it was, with its views, and "connect" is the last
\* notification published: the coordinator task just created has not run.
C40_HandshakeFrame ==
    [][\A guild_ids \in ReadyGuildLists :
          parse_ready(guild_ids)
          => /\ DOMAIN _guilds' = Range(guild_ids)
             /\ \A g \in DOMAIN _guilds' :
                   /\ _guilds'[g] \notin DOMAIN guild_objs
                   /\ guild_objs'[_guilds'[g]] = NewGuild(UnavailableGuildData(g))
             /\ _emojis' = << >> /\ _stickers' = << >> /\ _polls' = << >>
             /\ _private_channels' = << >> /\ _private_channels_by_user' = << >>
             /\ _voice_clients' = {}
             /\ _messages' = << >>
             /\ _users' \subseteq {SelfUser.id}
             /\ _view_store' = _view_store
             /\ view_stores' = view_stores
             /\ dispatched' = Dispatch(dispatched, "connect", None, None)
             /\ tasks'[_ready_task'] = NewTask
             /\ \A k \in DOMAIN dispatched' : dispatched'[k].by # _ready_task'
    ]_vars

\* A handshake has just been handled after guild MaxGuilds was joined and
\* given an emoji and a voice client, a message with a poll and a private
\* channel were cached and a view was stored: the view is still there.
C40_Witness ==
    /\ dispatched # << >>
    /\ dispatched[Len(dispatched)].name = "connect"
    /\ \E i, j, k \in DOMAIN dispatched :
          /\ dispatched[i].name = "guild_join" /\ dispatched[i].guild = MaxGuilds
          /\ dispatched[j].name = "guild_emojis_update"
          /\ dispatched[k].name = "message"
    /\ touched = << >> /\ _private_channels = << >>
    /\ store_events.message_create = 1 /\ _polls = << >>
    /\ view_stores[_view_store] = {1}
    /\ DOMAIN _guilds = {1}

====
